---- MODULE Spec2Model ----
(***************************************************************************)
(* Entity system of Star-Game: handle slots with version counters, a FIFO  *)
(* free list threaded through the slot table, a deferred command queue and *)
(* the commit step that applies it (EntitySystem.cpp, latest revision).    *)
(*                                                                         *)
(* Indices (handleIndex, nextFree, m_freeListDequeue/Enqueue) are kept     *)
(* 0-based as in the C++; Entry(handles, i) reads m_handles[i].            *)
(* Flags are a set over {"Valid","Active","Destroy"}; HandleFlags::Free    *)
(* (= None = 0) is the empty set, `flags & X` is the intersection.         *)
(* A failed Assert/Verify halts the program: fault holds its message and   *)
(* no action is enabled afterwards.                                        *)
(***************************************************************************)
EXTENDS Integers, Sequences, FiniteSets, TLC

\* ---------------------------------------------------------------- bounds
\* std::numeric_limits<int>::max() in the source, scaled down.
MaximumIdentifier == 3
\* Largest version a handle is issued with in the model (the model's caller
\* stops creating on a slot whose version has passed it).
MaxVersion == 1
\* Largest number of calls subscribers make into the entity system during
\* one public operation.
MaxCallbacks == 1
\* Largest number of finalize subscribers.
MaxSubscribers == 2
\* Largest number of commands the model's caller leaves pending in the queue.
MaxQueue == 2

\* ------------------------------------------------------------- constants
InvalidIdentifier == 0
InvalidNextFree == -1
InvalidQueueElement == -1

Valid == "Valid"
Active == "Active"
Destroy == "Destroy"
Free == {}
AllFlags == {Valid, Active, Destroy}

\* EntityHandle: identifier and version.
Handle(id, ver) == [identifier |-> id, version |-> ver]
\* EntityHandle(): the default constructed (null) handle.
NullHandle == Handle(0, 0)

\* Handle values a caller may pass in: issued ones, stale or future versions,
\* identifiers beyond the table, the null handle and a negative identifier.
CallerHandles ==
    { Handle(id, ver) : id \in 1..MaximumIdentifier, ver \in 0..(MaxVersion + 1) }
        \cup {NullHandle, Handle(-1, 0)}

VARIABLES
    m_initialized,      \* bool m_initialized
    m_handles,          \* HandleList m_handles (std::vector<HandleEntry>)
    m_commands,         \* CommandList m_commands (std::queue<EntityCommand>)
    m_entityCount,      \* int m_entityCount
    m_freeListDequeue,  \* int m_freeListDequeue
    m_freeListEnqueue,  \* int m_freeListEnqueue
    m_freeListIsEmpty,  \* bool m_freeListIsEmpty
    subscribers,        \* number of subscribers of events.finalize
    op,                 \* public operation in progress ("none" between calls)
    pc,                 \* position inside the operation in progress
    ctx,                \* caller of the DestroyHandle in progress
    handleIndex,        \* local handleIndex of the handler in progress
    it,                 \* DestroyAllEntities' iterator (0-based position)
    subIdx,             \* finalize subscriber being invoked (1-based)
    dangling,           \* the reference handleEntry of the handler in
                        \* progress points into storage that m_handles has
                        \* left (std::vector reallocated under it)
    callbacks,          \* calls subscribers have made into the system during
                        \* the operation in progress
    fault,              \* "none", or the message of the failed Assert/Verify
    lastCall,           \* last public call: its name, the kind of handle it
                        \* was given, and the handle CreateEntity returned
    issued,             \* handles returned by CreateEntity in this session
    life,               \* per slot in use or freed by the operation in
                        \* progress: the handle last issued for it and the
                        \* notifications emitted with that handle, in order
    stray,              \* a notification carried a handle that is not the
                        \* one last issued for its slot
    cmdCount0,          \* m_entityCount when the command in progress started
    voted,              \* result of the finalize vote of the command in
                        \* progress: "none", "true" or "false"
    votes,              \* what the finalize subscribers invoked for the
                        \* command in progress have returned, in order
    scen,               \* progress through the reference scenario, -1 when off
    peak,               \* most slots in use at once so far in the session
    lhs, rhs,           \* two handle values a client holds and compares
    cmp,                \* what the comparison of lhs with rhs returned
    m_configInitialized, \* Config: bool m_initialized
    m_variables,        \* Config: VariableMap m_variables, name to text
    cfgStored,          \* per name of m_variables: the value it was last
                        \* given, before its conversion to text
    cfgCall,            \* the last method of Config that was called
    cfgLast             \* the last SetVariable or GetVariable call

progVars == <<m_initialized, m_handles, m_commands, m_entityCount,
              m_freeListDequeue, m_freeListEnqueue, m_freeListIsEmpty>>
ctlVars == <<op, pc, ctx, handleIndex, it, subIdx>>
histVars == <<issued, life, stray, cmdCount0, voted, votes>>
cmpVars == <<lhs, rhs, cmp>>
cfgVars == <<m_configInitialized, m_variables, cfgStored, cfgCall, cfgLast>>
entityVars == <<progVars, subscribers, ctlVars, dangling, callbacks, fault,
                lastCall, histVars, scen, peak, cmpVars>>
vars == <<entityVars, cfgVars>>

\* ----------------------------------------------------- pure helper code
\* m_handles[i] with a 0-based index.
Entry(handles, i) == handles[i + 1]

InRange(handles, i) == i >= 0 /\ i < Len(handles)

\* EntityHandle::operator==
HandleEq(a, b) == a.identifier = b.identifier /\ a.version = b.version

\* EntityHandle::operator!=
HandleNe(a, b) == a.identifier # b.identifier \/ a.version # b.version

\* A sorting operator that breaks ties of the identifier by the version.
HandleLtLexicographic(a, b) ==
    \/ a.identifier < b.identifier
    \/ a.identifier = b.identifier /\ a.version < b.version

\* EntityHandle::operator<
HandleLt(a, b) == a.identifier < b.identifier

\* std::hash<Game::EntityHandle>: the int identifier converted to
\* std::size_t, written as wraps * 2^64 + offset (a negative identifier
\* wraps around once).
HandleHash(handle) ==
    [wraps |-> IF handle.identifier < 0 THEN 1 ELSE 0,
     offset |-> handle.identifier]

\* EntitySystem::CalculateHandleIndex
CalculateHandleIndex(handle) == handle.identifier - 1

\* flags & mask (non-zero)
HasFlag(flags, mask) == (flags \cap mask) # {}

\* The free list as a record, so the helpers below compose.
FreeList(handles, dq, eq, empty) ==
    [handles |-> handles, dequeue |-> dq, enqueue |-> eq, isEmpty |-> empty]

CurrentList ==
    FreeList(m_handles, m_freeListDequeue, m_freeListEnqueue, m_freeListIsEmpty)

\* AllocateHandle that starts the version of a new slot at 1.
AllocateHandleFromOne(st) ==
    LET handle == Handle(Len(st.handles) + 1, 1)
        entry == [handle |-> handle, flags |-> Free, nextFree |-> InvalidNextFree]
        pushed == Append(st.handles, entry)
        index == CalculateHandleIndex(handle)
    IN  IF st.isEmpty
        THEN FreeList(pushed, index, index, FALSE)
        ELSE FreeList(
                 [pushed EXCEPT ![st.enqueue + 1].nextFree = index],
                 st.dequeue, index, st.isEmpty)

\* EntitySystem::AllocateHandle: append a slot and link it at the tail.
AllocateHandle(st) ==
    LET handle == Handle(Len(st.handles) + 1, 0)
        entry == [handle |-> handle, flags |-> Free, nextFree |-> InvalidNextFree]
        pushed == Append(st.handles, entry)
        index == CalculateHandleIndex(handle)
    IN  IF st.isEmpty
        THEN FreeList(pushed, index, index, FALSE)
        ELSE FreeList(
                 [pushed EXCEPT ![st.enqueue + 1].nextFree = index],
                 st.dequeue, index, st.isEmpty)

\* RetrieveHandle that appends a slot on every call, whether or not the free
\* list has a slot to give.
RetrieveHandleAlwaysAllocates(st0) ==
    LET st == AllocateHandle(st0)
        index == st.dequeue
    IN  IF ~InRange(st.handles, index)
        THEN [list |-> st0, index |-> -1, fault |-> "Out of bounds handle index!"]
        ELSE IF Entry(st.handles, index).flags # Free
        THEN [list |-> st0, index |-> index,
              fault |-> "Retrieved handle is not marked as free!"]
        ELSE IF st.dequeue = st.enqueue
        THEN [list |-> FreeList(st.handles, InvalidQueueElement,
                                InvalidQueueElement, TRUE),
              index |-> index, fault |-> "none"]
        ELSE [list |-> FreeList(
                           [st.handles EXCEPT ![index + 1].nextFree = InvalidNextFree],
                           Entry(st.handles, index).nextFree, st.enqueue, st.isEmpty),
              index |-> index, fault |-> "none"]

\* RetrieveHandle that leaves the link of the slot it pops in place.
RetrieveHandleKeepsLink(st0) ==
    LET emptyOk == st0.dequeue = InvalidQueueElement
                   /\ st0.enqueue = InvalidQueueElement
        st == IF st0.isEmpty THEN AllocateHandle(st0) ELSE st0
        index == st.dequeue
    IN  IF st0.isEmpty /\ ~emptyOk
        THEN [list |-> st0, index |-> -1,
              fault |-> "Free list is not invalid while the list is empty!"]
        ELSE IF ~InRange(st.handles, index)
        THEN [list |-> st0, index |-> -1, fault |-> "Out of bounds handle index!"]
        ELSE IF Entry(st.handles, index).flags # Free
        THEN [list |-> st0, index |-> index,
              fault |-> "Retrieved handle is not marked as free!"]
        ELSE IF st.dequeue = st.enqueue
        THEN [list |-> FreeList(st.handles, InvalidQueueElement,
                                InvalidQueueElement, TRUE),
              index |-> index, fault |-> "none"]
        ELSE [list |-> FreeList(st.handles, Entry(st.handles, index).nextFree,
                                st.enqueue, st.isEmpty),
              index |-> index, fault |-> "none"]

\* EntitySystem::RetrieveHandle: the list after the pop, the popped index,
\* and the message of the first failed assertion ("none" when all hold).
RetrieveHandle(st0) ==
    LET emptyOk == st0.dequeue = InvalidQueueElement
                   /\ st0.enqueue = InvalidQueueElement
        st == IF st0.isEmpty THEN AllocateHandle(st0) ELSE st0
        index == st.dequeue
    IN  IF st0.isEmpty /\ ~emptyOk
        THEN [list |-> st0, index |-> -1,
              fault |-> "Free list is not invalid while the list is empty!"]
        ELSE IF ~InRange(st.handles, index)
        THEN [list |-> st0, index |-> -1, fault |-> "Out of bounds handle index!"]
        ELSE IF Entry(st.handles, index).flags # Free
        THEN [list |-> st0, index |-> index,
              fault |-> "Retrieved handle is not marked as free!"]
        ELSE IF st.dequeue = st.enqueue
        THEN [list |-> FreeList(st.handles, InvalidQueueElement,
                                InvalidQueueElement, TRUE),
              index |-> index, fault |-> "none"]
        ELSE [list |-> FreeList(
                           [st.handles EXCEPT ![index + 1].nextFree = InvalidNextFree],
                           Entry(st.handles, index).nextFree, st.enqueue, st.isEmpty),
              index |-> index, fault |-> "none"]

\* FreeHandle that increments the identifier instead of the version.
FreeHandleBumpsIdentifier(st, index) ==
    LET e == Entry(st.handles, index)
        freed == [st.handles EXCEPT
                     ![index + 1].flags = Free,
                     ![index + 1].handle.identifier = e.handle.identifier + 1]
    IN  IF ~InRange(st.handles, index) \/ ~HasFlag(e.flags, {Valid})
        THEN [list |-> st, fault |-> "Attempting to free a handle that is not valid!"]
        ELSE IF st.isEmpty
        THEN [list |-> FreeList(freed, index, index, FALSE), fault |-> "none"]
        ELSE [list |-> FreeList(
                           [freed EXCEPT ![st.enqueue + 1].nextFree = index],
                           st.dequeue, index, st.isEmpty),
              fault |-> "none"]

\* FreeHandle that moves the tail but forgets to link the old tail to the
\* freed slot.
FreeHandleNoLink(st, index) ==
    LET e == Entry(st.handles, index)
        freed == [st.handles EXCEPT
                     ![index + 1].flags = Free,
                     ![index + 1].handle.version = e.handle.version + 1]
    IN  IF ~InRange(st.handles, index) \/ ~HasFlag(e.flags, {Valid})
        THEN [list |-> st, fault |-> "Attempting to free a handle that is not valid!"]
        ELSE IF st.isEmpty
        THEN [list |-> FreeList(freed, index, index, FALSE), fault |-> "none"]
        ELSE [list |-> FreeList(freed, st.dequeue, index, st.isEmpty),
              fault |-> "none"]

\* FreeHandle that links the freed slot in front of the head of the list.
FreeHandlePushesFront(st, index) ==
    LET e == Entry(st.handles, index)
        freed == [st.handles EXCEPT
                     ![index + 1].flags = Free,
                     ![index + 1].handle.version = e.handle.version + 1]
    IN  IF ~InRange(st.handles, index) \/ ~HasFlag(e.flags, {Valid})
        THEN [list |-> st, fault |-> "Attempting to free a handle that is not valid!"]
        ELSE IF st.isEmpty
        THEN [list |-> FreeList(freed, index, index, FALSE), fault |-> "none"]
        ELSE [list |-> FreeList(
                           [freed EXCEPT ![index + 1].nextFree = st.dequeue],
                           index, st.enqueue, st.isEmpty),
              fault |-> "none"]

\* FreeHandle that forgets to increment the version of the freed slot.
FreeHandleNoBump(st, index) ==
    LET e == Entry(st.handles, index)
        freed == [st.handles EXCEPT ![index + 1].flags = Free]
    IN  IF ~InRange(st.handles, index) \/ ~HasFlag(e.flags, {Valid})
        THEN [list |-> st, fault |-> "Attempting to free a handle that is not valid!"]
        ELSE IF st.isEmpty
        THEN [list |-> FreeList(freed, index, index, FALSE), fault |-> "none"]
        ELSE [list |-> FreeList(
                           [freed EXCEPT ![st.enqueue + 1].nextFree = index],
                           st.dequeue, index, st.isEmpty),
              fault |-> "none"]

\* EntitySystem::FreeHandle: the list after freeing slot `index`, and the
\* message of the first failed assertion.
FreeHandle(st, index) ==
    LET e == Entry(st.handles, index)
        freed == [st.handles EXCEPT
                     ![index + 1].flags = Free,
                     ![index + 1].handle.version = e.handle.version + 1]
    IN  IF ~InRange(st.handles, index)
        THEN [list |-> st, fault |-> "Invalid handle index!"]
        ELSE IF HasFlag(e.flags, Free)
        THEN [list |-> st, fault |-> "Attempting to free a handle that is already free!"]
        ELSE IF ~HasFlag(e.flags, {Valid})
        THEN [list |-> st, fault |-> "Attempting to free a handle that is not valid!"]
        ELSE IF st.isEmpty
        THEN [list |-> FreeList(freed, index, index, FALSE), fault |-> "none"]
        ELSE IF Entry(freed, st.enqueue).nextFree # InvalidNextFree
        THEN [list |-> st,
              fault |-> "Last element in the free list queue is pointing at a next free handle!"]
        ELSE IF Entry(freed, index).nextFree # InvalidNextFree
        THEN [list |-> st,
              fault |-> "Fried handle entry is poiting to a next free handle!"]
        ELSE [list |-> FreeList(
                           [freed EXCEPT ![st.enqueue + 1].nextFree = index],
                           st.dequeue, index, st.isEmpty),
              fault |-> "none"]

\* DestroyHandle that forgets to decrement the counter of active entities.
DestroyHandleTailKeepCount(st, index, count) ==
    LET r == FreeHandle(st, index)
    IN  [list |-> r.list, fault |-> r.fault, count |-> count]

\* EntitySystem::DestroyHandle after events.destroy has returned: free the
\* slot, then decrement the counter of active entities.
DestroyHandleTail(st, index, count) ==
    LET r == FreeHandle(st, index)
    IN  [list |-> r.list, fault |-> r.fault, count |-> count - 1]

\* The slots on the free list, from the head along the nextFree links (at
\* most `fuel` of them, so a cyclic chain shows as a repeated index).
RECURSIVE FreeChain(_, _, _)
FreeChain(handles, index, fuel) ==
    IF fuel = 0 \/ ~InRange(handles, index)
    THEN <<>>
    ELSE <<index>> \o FreeChain(handles, Entry(handles, index).nextFree, fuel - 1)

\* IsHandleValid whose assertions come before the test for the null handle.
IsHandleValidFaultOnNull(initialized, handles, entity) ==
    IF ~initialized
    THEN "none"
    ELSE IF ~(entity.identifier > InvalidIdentifier)
              \/ ~(entity.identifier <= Len(handles))
    THEN "Corrupted entity handle identifier encountered!"
    ELSE "none"

\* The assertion EntitySystem::IsHandleValid trips on `entity`, if any.
IsHandleValidFault(initialized, handles, entity) ==
    IF ~initialized \/ entity.identifier = InvalidIdentifier
    THEN "none"
    ELSE IF ~(entity.identifier > InvalidIdentifier)
              \/ ~(entity.identifier <= Len(handles))
    THEN "Corrupted entity handle identifier encountered!"
    ELSE "none"

\* IsHandleValid without the check of the Destroy flag.
IsHandleValidIgnoresDestroy(initialized, handles, entity) ==
    IF ~initialized THEN FALSE
    ELSE IF entity.identifier = InvalidIdentifier THEN FALSE
    ELSE IF IsHandleValidFault(initialized, handles, entity) # "none" THEN FALSE
    ELSE LET handleEntry == Entry(handles, CalculateHandleIndex(entity))
         IN  IF ~HasFlag(handleEntry.flags, {Valid}) THEN FALSE
             ELSE IF handleEntry.handle.version # entity.version THEN FALSE
             ELSE TRUE

\* IsHandleValid that asks for the Active flag instead of the Valid flag.
IsHandleValidNeedsActive(initialized, handles, entity) ==
    IF ~initialized THEN FALSE
    ELSE IF entity.identifier = InvalidIdentifier THEN FALSE
    ELSE IF IsHandleValidFault(initialized, handles, entity) # "none" THEN FALSE
    ELSE LET handleEntry == Entry(handles, CalculateHandleIndex(entity))
         IN  IF ~HasFlag(handleEntry.flags, {Active}) THEN FALSE
             ELSE IF HasFlag(handleEntry.flags, {Destroy}) THEN FALSE
             ELSE IF handleEntry.handle.version # entity.version THEN FALSE
             ELSE TRUE

\* IsHandleValid without the comparison of the versions.
IsHandleValidIgnoresVersion(initialized, handles, entity) ==
    IF ~initialized THEN FALSE
    ELSE IF entity.identifier = InvalidIdentifier THEN FALSE
    ELSE IF IsHandleValidFault(initialized, handles, entity) # "none" THEN FALSE
    ELSE LET handleEntry == Entry(handles, CalculateHandleIndex(entity))
         IN  IF ~HasFlag(handleEntry.flags, {Valid}) THEN FALSE
             ELSE IF HasFlag(handleEntry.flags, {Destroy}) THEN FALSE
             ELSE TRUE

\* EntitySystem::IsHandleValid, as its chain of early returns (FALSE where
\* an assertion halts instead of returning).
IsHandleValidIn(initialized, handles, entity) ==
    IF ~initialized THEN FALSE
    ELSE IF entity.identifier = InvalidIdentifier THEN FALSE
    ELSE IF IsHandleValidFault(initialized, handles, entity) # "none" THEN FALSE
    ELSE LET handleEntry == Entry(handles, CalculateHandleIndex(entity))
         IN  IF ~HasFlag(handleEntry.flags, {Valid}) THEN FALSE
             ELSE IF HasFlag(handleEntry.flags, {Destroy}) THEN FALSE
             ELSE IF handleEntry.handle.version # entity.version THEN FALSE
             ELSE TRUE

IsHandleValid(entity) == IsHandleValidIn(m_initialized, m_handles, entity)

\* EntitySystem::GetEntityCount
GetEntityCount == m_entityCount

\* ------------------------------------------------------------ bookkeeping
NoLife == [handle |-> NullHandle, notes |-> <<>>]

\* Whether `handle` is the handle last issued for its slot.
IsLatest(handle) ==
    /\ handle.identifier \in DOMAIN life
    /\ life[handle.identifier].handle = handle

\* life after the notifications `ns` were emitted with `handle`.
Emit(handle, ns) ==
    IF IsLatest(handle)
    THEN [life EXCEPT ![handle.identifier].notes = @ \o ns]
    ELSE life

Call(name, kind) == [name |-> name, kind |-> kind, handle |-> NullHandle]
Returned(name, h) == [name |-> name, kind |-> "handle", handle |-> h]

\* What a handle passed by the caller is to the system at the time of the call.
ArgKind(entity) ==
    IF entity.identifier = InvalidIdentifier THEN "null"
    ELSE IF entity.identifier < 0 \/ entity.identifier > Len(m_handles)
    THEN "corrupt"
    ELSE LET e == Entry(m_handles, CalculateHandleIndex(entity))
         IN  IF entity.version < e.handle.version THEN "stale"
             ELSE IF entity.version > e.handle.version \/ e.flags = Free
             THEN "unissued"
             ELSE IF Destroy \in e.flags THEN "pending"
             ELSE "live"

\* life once a public operation returns: slots it has freed are forgotten.
Settled(l) ==
    [i \in DOMAIN l |->
        IF i <= Len(m_handles) /\ m_handles[i].flags # Free THEN l[i] ELSE NoLife]

\* Who is calling a public method: the program's client between operations,
\* a subscriber while a notification is being delivered.
Caller == IF pc = "idle" THEN "client" ELSE "subscriber"

\* The record of the last call: calls made by the program's client are
\* recorded, calls made by a subscriber from inside a notification are not.
Note(call) == lastCall' = IF pc = "idle" THEN call ELSE lastCall

\* A failed assertion inside a running operation: the program halts.
Halt(msg) ==
    /\ fault' = msg
    /\ UNCHANGED <<progVars, subscribers, ctlVars, lastCall, histVars, scen>>

\* A failed assertion inside the public call `call`.
HaltCall(msg, call) ==
    /\ fault' = msg
    /\ Note(call)
    /\ scen' = -1
    /\ UNCHANGED <<progVars, subscribers, ctlVars, histVars, peak>>

\* A public call that returns early without touching anything.
NoOpCall(call) ==
    /\ Note(call)
    /\ scen' = -1
    /\ UNCHANGED <<progVars, subscribers, ctlVars, fault, histVars, peak>>

Idle == pc = "idle" /\ fault = "none"
Running(p) == pc = p /\ fault = "none"

\* ----------------------------------------------------------- System::Config
\* Names of configuration variables the program asks for.
ConfigNames == {"Window.Width", "Window.Vsync"}

\* Values of the types GetVariable and SetVariable are instantiated with:
\* int, bool and double. A double is written as its number of ten-millionths
\* (1.5 is 15000000), so that a seventh decimal can be told apart.
IntValue(n) == [type |-> "int", v |-> n]
BoolValue(b) == [type |-> "bool", v |-> b]
DoubleValue(t) == [type |-> "double", v |-> t]
NoValue == [type |-> "none", v |-> 0]

ConfigTypes == {"int", "bool", "double"}

ConfigValues ==
    {IntValue(n) : n \in {-1, 0, 12}}
        \cup {BoolValue(b) : b \in BOOLEAN}
        \cup {DoubleValue(t) : t \in {0, 3, 15000000}}

\* Type(): the value-initialized object GetVariable returns when the config
\* is not initialized.
TypeDefault(type) ==
    CASE type = "int" -> IntValue(0)
      [] type = "bool" -> BoolValue(FALSE)
      [] type = "double" -> DoubleValue(0)

DigitChars == <<"0", "1", "2", "3", "4", "5", "6", "7", "8", "9">>
IsDigit(c) == \E k \in 1..10 : DigitChars[k] = c
DigitValue(c) == (CHOOSE k \in 1..10 : DigitChars[k] = c) - 1

\* The decimal digits of a natural number.
RECURSIVE Digits(_)
Digits(n) ==
    IF n < 10 THEN <<DigitChars[n + 1]>>
    ELSE Digits(n \div 10) \o <<DigitChars[(n % 10) + 1]>>

\* The number a sequence of decimal digits stands for.
RECURSIVE Number(_)
Number(ds) ==
    IF ds = <<>> THEN 0
    ELSE Number(SubSeq(ds, 1, Len(ds) - 1)) * 10 + DigitValue(ds[Len(ds)])

\* The digits a text starts with.
RECURSIVE LeadingDigits(_)
LeadingDigits(text) ==
    IF text = <<>> \/ ~IsDigit(Head(text)) THEN <<>>
    ELSE <<Head(text)>> \o LeadingDigits(Tail(text))

\* ds with zeros in front up to `width` characters.
PadLeft(ds, width) ==
    [i \in 1..width |->
        IF i <= width - Len(ds) THEN "0" ELSE ds[i - (width - Len(ds))]]

\* ds with zeros behind up to `width` characters.
PadRight(ds, width) ==
    [i \in 1..width |-> IF i <= Len(ds) THEN ds[i] ELSE "0"]

\* std::to_string(int): the decimal digits, with a minus sign when negative.
ToStringInt(n) == IF n < 0 THEN <<"-">> \o Digits(-n) ELSE Digits(n)

\* std::to_string(bool): the argument is promoted to int.
ToStringBool(b) == ToStringInt(IF b THEN 1 ELSE 0)

\* std::to_string(double): printf's "%f", six digits after the point, the
\* value rounded to the nearest millionth.
ToStringDouble(t) ==
    LET neg == t < 0
        abs == IF neg THEN -t ELSE t
        millionths == (abs + 5) \div 10
    IN  (IF neg THEN <<"-">> ELSE <<>>)
            \o Digits(millionths \div 1000000)
            \o <<".">>
            \o PadLeft(Digits(millionths % 1000000), 6)

\* std::to_string(value)
to_string(value) ==
    CASE value.type = "int" -> ToStringInt(value.v)
      [] value.type = "bool" -> ToStringBool(value.v)
      [] value.type = "double" -> ToStringDouble(value.v)

\* What operator>> reads for an integer: an optional minus sign and the
\* digits that follow; it stops at the first other character and fails when
\* there is no digit.
ReadInteger(text) ==
    LET neg == text # <<>> /\ Head(text) = "-"
        body == IF neg THEN Tail(text) ELSE text
        ds == LeadingDigits(body)
    IN  [ok |-> ds # <<>>,
         neg |-> neg,
         value |-> IF neg THEN -Number(ds) ELSE Number(ds),
         rest |-> SubSeq(body, Len(ds) + 1, Len(body))]

\* convert >> value for an int: 0 when the extraction fails.
ParseInt(text) ==
    LET r == ReadInteger(text) IN IF r.ok THEN r.value ELSE 0

\* convert >> value for a bool (no boolalpha): 0 is false, 1 is true, any
\* other number sets failbit and stores true.
ParseBool(text) ==
    LET r == ReadInteger(text) IN IF r.ok THEN r.value # 0 ELSE FALSE

\* convert >> value for a double: the integer part and up to seven digits
\* after the point, in ten-millionths.
ParseDouble(text) ==
    LET r == ReadInteger(text)
        fs == IF r.rest # <<>> /\ Head(r.rest) = "."
              THEN LeadingDigits(Tail(r.rest)) ELSE <<>>
        frac == Number(PadRight(SubSeq(fs, 1, IF Len(fs) < 7 THEN Len(fs) ELSE 7), 7))
    IN  IF ~r.ok THEN 0
        ELSE IF r.neg THEN r.value * 10000000 - frac
        ELSE r.value * 10000000 + frac

\* std::istringstream convert(text); Type value; convert >> value;
Parse(type, text) ==
    CASE type = "int" -> IntValue(ParseInt(text))
      [] type = "bool" -> BoolValue(ParseBool(text))
      [] type = "double" -> DoubleValue(ParseDouble(text))

\* m_variables.insert_or_assign(name, text)
InsertOrAssign(map, name, text) ==
    [n \in DOMAIN map \cup {name} |-> IF n = name THEN text ELSE map[n]]

\* The record of a call of Config: its arguments, the state it found (whether
\* the config was initialized, the map, the value last stored under the name)
\* and what it returned.
ConfigCall(name, argument, returned) ==
    [name |-> name,
     argument |-> argument,
     initialized |-> m_configInitialized,
     before |-> m_variables,
     held |-> IF name \in DOMAIN cfgStored THEN cfgStored[name] ELSE NoValue,
     returned |-> returned]

NoConfigCall ==
    [name |-> "", argument |-> NoValue, initialized |-> FALSE, before |-> <<>>,
     held |-> NoValue, returned |-> NoValue]

\* Config::Config
InitConfig ==
    /\ m_configInitialized = FALSE
    /\ m_variables = <<>>
    /\ cfgStored = <<>>
    /\ cfgCall = "none"
    /\ cfgLast = NoConfigCall

\* Config::Cleanup
ConfigCleanup ==
    /\ UNCHANGED entityVars
    /\ cfgCall' = "Cleanup"
    /\ cfgLast' = NoConfigCall
    /\ IF ~m_configInitialized
       THEN UNCHANGED <<m_configInitialized, m_variables, cfgStored>>
       ELSE /\ m_variables' = <<>>
            /\ cfgStored' = <<>>
            /\ m_configInitialized' = FALSE

\* Config::Initialize: Cleanup, then m_initialized = true (the scope guard
\* finds m_initialized set and does nothing).
ConfigInitialize ==
    /\ UNCHANGED entityVars
    /\ cfgCall' = "Initialize"
    /\ cfgLast' = NoConfigCall
    /\ m_variables' = IF m_configInitialized THEN <<>> ELSE m_variables
    /\ cfgStored' = IF m_configInitialized THEN <<>> ELSE cfgStored
    /\ m_configInitialized' = TRUE

\* Config::SetVariable<Type>
SetVariable(name, value) ==
    /\ UNCHANGED entityVars
    /\ cfgCall' = "SetVariable"
    /\ cfgLast' = ConfigCall(name, value, NoValue)
    /\ IF ~m_configInitialized
       THEN UNCHANGED <<m_configInitialized, m_variables, cfgStored>>
       ELSE /\ m_variables' = InsertOrAssign(m_variables, name, to_string(value))
            /\ cfgStored' = InsertOrAssign(cfgStored, name, value)
            /\ UNCHANGED m_configInitialized

\* Config::GetVariable<Type>, Type being the type of `default`.
GetVariable(name, default) ==
    /\ UNCHANGED entityVars
    /\ cfgCall' = "GetVariable"
    /\ IF ~m_configInitialized
       THEN /\ cfgLast' = ConfigCall(name, default, TypeDefault(default.type))
            /\ UNCHANGED <<m_configInitialized, m_variables, cfgStored>>
       ELSE LET found == name \in DOMAIN m_variables
                map == IF found THEN m_variables
                       ELSE InsertOrAssign(m_variables, name, to_string(default))
            IN  /\ m_variables' = map
                /\ cfgStored' = IF found THEN cfgStored
                                ELSE InsertOrAssign(cfgStored, name, default)
                /\ cfgLast' = ConfigCall(name, default,
                                         Parse(default.type, map[name]))
                /\ UNCHANGED m_configInitialized

\* A program that only uses its Config.
NextConfig ==
    \/ ConfigInitialize
    \/ ConfigCleanup
    \/ \E name \in ConfigNames, value \in ConfigValues : SetVariable(name, value)
    \/ \E name \in ConfigNames, default \in ConfigValues : GetVariable(name, default)

\* ------------------------------------------------------------------ Init
InitSystem ==
    /\ m_initialized = FALSE
    /\ m_handles = <<>>
    /\ m_commands = <<>>
    /\ m_entityCount = 0
    /\ m_freeListDequeue = InvalidQueueElement
    /\ m_freeListEnqueue = InvalidQueueElement
    /\ m_freeListIsEmpty = TRUE
    /\ subscribers = 0
    /\ op = "none"
    /\ pc = "idle"
    /\ ctx = "none"
    /\ handleIndex = -1
    /\ it = 0
    /\ subIdx = 0
    /\ dangling = FALSE
    /\ callbacks = 0
    /\ fault = "none"
    /\ lastCall = Call("construct", "none")
    /\ issued = {}
    /\ life = [i \in 1..MaximumIdentifier |-> NoLife]
    /\ stray = FALSE
    /\ cmdCount0 = 0
    /\ voted = "none"
    /\ votes = <<>>
    /\ scen = -1
    /\ peak = 0
    /\ InitConfig

\* No comparison has been made.
NoComparison ==
    [done |-> FALSE, eq |-> FALSE, ne |-> FALSE, lt |-> FALSE, gt |-> FALSE,
     hashLhs |-> HandleHash(NullHandle), hashRhs |-> HandleHash(NullHandle)]

\* The entity system after construction; its client compares no handles.
Init ==
    /\ InitSystem
    /\ lhs = NullHandle
    /\ rhs = NullHandle
    /\ cmp = NoComparison

\* ------------------------------------------------------ public operations
\* The number of slots of the table that are not Free.
InUse(handles) ==
    Cardinality({i \in 1..Len(handles) : handles[i].flags # Free})

\* EntitySystem::CreateEntity once the system is known to be initialized.
CreateEntityBody ==
    IF ~(Len(m_handles) < MaximumIdentifier)
    THEN HaltCall("Entity handle identifier reached its numerical limit!",
                  Call("CreateEntity", "none"))
    ELSE LET r == RetrieveHandle(CurrentList)
             handle == Entry(r.list.handles, r.index).handle
             marked == [r.list.handles EXCEPT
                           ![r.index + 1].flags = @ \cup {Valid}]
             command == [type |-> "Create", handle |-> handle, by |-> Caller]
         IN  IF r.fault # "none"
             THEN HaltCall(r.fault, Call("CreateEntity", "none"))
             ELSE /\ handle.version <= MaxVersion
                  /\ Len(m_commands) < MaxQueue
                  /\ m_handles' = marked
                  /\ m_freeListDequeue' = r.list.dequeue
                  /\ m_freeListEnqueue' = r.list.enqueue
                  /\ m_freeListIsEmpty' = r.list.isEmpty
                  /\ m_commands' = Append(m_commands, command)
                  /\ Note(Returned("CreateEntity", handle))
                  /\ issued' = issued \cup {handle}
                  /\ life' = [life EXCEPT ![handle.identifier] =
                                 [handle |-> handle, notes |-> <<>>]]
                  /\ scen' = IF scen = 0 THEN 1 ELSE IF scen = 4 THEN 5 ELSE -1
                  /\ peak' = IF InUse(marked) > peak THEN InUse(marked) ELSE peak
                  /\ UNCHANGED <<m_initialized, m_entityCount, subscribers,
                                 ctlVars, fault, stray, cmdCount0, voted, votes>>

\* CreateEntity without the check of m_initialized.
CreateEntityUnguarded ==
    /\ UNCHANGED cmpVars
    /\ UNCHANGED cfgVars
    /\ Idle
    /\ UNCHANGED <<dangling, callbacks>>
    /\ CreateEntityBody

\* EntitySystem::CreateEntity
CreateEntity ==
    /\ UNCHANGED cmpVars
    /\ UNCHANGED cfgVars
    /\ Idle
    /\ UNCHANGED <<dangling, callbacks>>
    /\ IF ~m_initialized
       THEN NoOpCall(Call("CreateEntity", "null"))
       ELSE CreateEntityBody

\* A DestroyEntity that takes the Active flag away as it marks the slot.
DestroyEntityBodyDeactivates(entity) ==
    IF ~m_initialized
    THEN NoOpCall(Call("DestroyEntity", ArgKind(entity)))
    ELSE IF IsHandleValidFault(m_initialized, m_handles, entity) # "none"
    THEN HaltCall(IsHandleValidFault(m_initialized, m_handles, entity),
                  Call("DestroyEntity", ArgKind(entity)))
    ELSE IF ~IsHandleValid(entity)
    THEN NoOpCall(Call("DestroyEntity", ArgKind(entity)))
    ELSE LET index == CalculateHandleIndex(entity)
             handleEntry == Entry(m_handles, index)
             command == [type |-> "Destroy", handle |-> handleEntry.handle,
                         by |-> Caller]
         IN  /\ Len(m_commands) < MaxQueue
             /\ m_handles' = [m_handles EXCEPT
                                 ![index + 1].flags = {Valid, Destroy}]
             /\ m_commands' = Append(m_commands, command)
             /\ Note(Call("DestroyEntity", ArgKind(entity)))
             /\ scen' = IF scen = 2 /\ entity \in issued THEN 3 ELSE -1
             /\ UNCHANGED <<m_initialized, m_entityCount,
                            m_freeListDequeue, m_freeListEnqueue,
                            m_freeListIsEmpty, subscribers, ctlVars,
                            fault, histVars>>

\* EntitySystem::DestroyEntity, whoever calls it.
DestroyEntityBody(entity) ==
    IF ~m_initialized
    THEN NoOpCall(Call("DestroyEntity", ArgKind(entity)))
    ELSE IF IsHandleValidFault(m_initialized, m_handles, entity) # "none"
    THEN HaltCall(IsHandleValidFault(m_initialized, m_handles, entity),
                  Call("DestroyEntity", ArgKind(entity)))
    ELSE IF ~IsHandleValid(entity)
    THEN NoOpCall(Call("DestroyEntity", ArgKind(entity)))
    ELSE LET index == CalculateHandleIndex(entity)
             handleEntry == Entry(m_handles, index)
             command == [type |-> "Destroy", handle |-> handleEntry.handle,
                         by |-> Caller]
         IN  IF ~HasFlag(handleEntry.flags, {Valid})
             THEN HaltCall("Attempting to destroy an entity that is not valid!",
                           Call("DestroyEntity", ArgKind(entity)))
             ELSE IF HasFlag(handleEntry.flags, {Destroy})
             THEN HaltCall("Attempting to destroy an entity that is already being destroyed!",
                           Call("DestroyEntity", ArgKind(entity)))
             ELSE /\ Len(m_commands) < MaxQueue
                  /\ m_handles' = [m_handles EXCEPT
                                      ![index + 1].flags = @ \cup {Destroy}]
                  /\ m_commands' = Append(m_commands, command)
                  /\ Note(Call("DestroyEntity", ArgKind(entity)))
                  /\ scen' = IF scen = 2 /\ entity \in issued THEN 3 ELSE -1
                  /\ UNCHANGED <<m_initialized, m_entityCount,
                                 m_freeListDequeue, m_freeListEnqueue,
                                 m_freeListIsEmpty, subscribers, ctlVars,
                                 fault, histVars>>

\* EntitySystem::DestroyEntity called between commits.
DestroyEntity(entity) ==
    /\ UNCHANGED cmpVars
    /\ UNCHANGED cfgVars
    /\ UNCHANGED peak
    /\ Idle
    /\ UNCHANGED <<dangling, callbacks>>
    /\ DestroyEntityBody(entity)

\* Entry of a public operation that drains the command queue first.
EnterDrain(name, nextScen) ==
    /\ op' = name
    /\ pc' = "loop"
    /\ lastCall' = Call(name, "none")
    /\ scen' = nextScen
    /\ UNCHANGED <<progVars, subscribers, ctx, handleIndex, it, subIdx, fault,
                   histVars>>

\* EntitySystem::ProcessCommands: the call and its initialization check.
ProcessCommands ==
    /\ UNCHANGED cmpVars
    /\ UNCHANGED cfgVars
    /\ UNCHANGED peak
    /\ Idle
    /\ UNCHANGED <<dangling, callbacks>>
    /\ IF ~m_initialized
       THEN NoOpCall(Call("ProcessCommands", "none"))
       ELSE EnterDrain("ProcessCommands",
                       IF scen = 1 THEN 2 ELSE IF scen = 3 THEN 4 ELSE -1)

\* EntitySystem::DestroyAllEntities: the call; it starts with ProcessCommands.
DestroyAllEntities ==
    /\ UNCHANGED cmpVars
    /\ UNCHANGED cfgVars
    /\ UNCHANGED peak
    /\ Idle
    /\ UNCHANGED <<dangling, callbacks>>
    /\ IF ~m_initialized
       THEN NoOpCall(Call("DestroyAllEntities", "none"))
       ELSE EnterDrain("DestroyAllEntities", -1)

\* EntitySystem::Cleanup: the call; it starts with DestroyAllEntities.
Cleanup ==
    /\ UNCHANGED cmpVars
    /\ UNCHANGED cfgVars
    /\ UNCHANGED peak
    /\ Idle
    /\ UNCHANGED <<dangling, callbacks>>
    /\ IF ~m_initialized
       THEN NoOpCall(Call("Cleanup", "none"))
       ELSE EnterDrain("Cleanup", -1)

\* EntitySystem::Initialize: Cleanup, then m_initialized = true.
Initialize ==
    /\ UNCHANGED cmpVars
    /\ UNCHANGED cfgVars
    /\ UNCHANGED peak
    /\ Idle
    /\ UNCHANGED <<dangling, callbacks>>
    /\ IF ~m_initialized
       THEN /\ m_initialized' = TRUE
            /\ lastCall' = Call("Initialize", "none")
            /\ scen' = IF subscribers = 0 THEN 0 ELSE -1
            /\ UNCHANGED <<m_handles, m_commands, m_entityCount,
                           m_freeListDequeue, m_freeListEnqueue,
                           m_freeListIsEmpty, subscribers, ctlVars, fault,
                           histVars>>
       ELSE EnterDrain("Initialize", -1)

\* events.finalize.Subscribe
Subscribe ==
    /\ UNCHANGED cmpVars
    /\ UNCHANGED cfgVars
    /\ UNCHANGED peak
    /\ Idle
    /\ UNCHANGED <<dangling, callbacks>>
    /\ subscribers < MaxSubscribers
    /\ subscribers' = subscribers + 1
    /\ lastCall' = Call("Subscribe", "none")
    /\ scen' = -1
    /\ UNCHANGED <<progVars, ctlVars, fault, histVars>>

\* events.finalize.Unsubscribe
Unsubscribe ==
    /\ UNCHANGED cmpVars
    /\ UNCHANGED cfgVars
    /\ UNCHANGED peak
    /\ Idle
    /\ UNCHANGED <<dangling, callbacks>>
    /\ subscribers > 0
    /\ subscribers' = subscribers - 1
    /\ lastCall' = Call("Unsubscribe", "none")
    /\ scen' = -1
    /\ UNCHANGED <<progVars, ctlVars, fault, histVars>>

\* ---------------------------------------------------------- commit steps
\* EntitySystem::DestroyHandle up to events.destroy: the notification for
\* the slot's handle is being delivered, the slot is not freed yet.
BeginDestroyHandle(index, from) ==
    LET handle == Entry(m_handles, index).handle
    IN  /\ life' = Emit(handle, <<"destroy">>)
        /\ stray' = (stray \/ ~IsLatest(handle))
        /\ pc' = "destroy"
        /\ ctx' = from
        /\ handleIndex' = index

\* The locals of the command (or sweep iteration) in progress go out of scope.
EndOfCommand ==
    /\ dangling' = FALSE
    /\ ctx' = "none"
    /\ handleIndex' = -1
    /\ subIdx' = 0
    /\ cmdCount0' = 0
    /\ voted' = "none"
    /\ votes' = <<>>

\* CreateHandle that assigns the Active flag instead of adding it.
ActivateHandleOverwritesFlags(index) ==
    LET handle == Entry(m_handles, index).handle
    IN  /\ m_handles' = [m_handles EXCEPT ![index + 1].flags = {Active}]
        /\ life' = Emit(handle, <<"create">>)
        /\ stray' = (stray \/ ~IsLatest(handle))
        /\ voted' = "true"
        /\ pc' = "create"

\* CreateHandle that raises events.create but leaves the flags alone.
ActivateHandleNoFlag(index) ==
    LET handle == Entry(m_handles, index).handle
    IN  /\ m_handles' = m_handles
        /\ life' = Emit(handle, <<"create">>)
        /\ stray' = (stray \/ ~IsLatest(handle))
        /\ voted' = "true"
        /\ pc' = "create"

\* The handle's slot becomes Active and events.create is being delivered
\* (EntitySystem::CreateHandle after a successful finalize).
ActivateHandle(index) ==
    LET handle == Entry(m_handles, index).handle
    IN  /\ m_handles' = [m_handles EXCEPT ![index + 1].flags = @ \cup {Active}]
        /\ life' = Emit(handle, <<"create">>)
        /\ stray' = (stray \/ ~IsLatest(handle))
        /\ voted' = "true"
        /\ pc' = "create"

\* A DestroyAllEntities that returns once the pending commands are applied.
ReturnFromProcessCommandsNoSweep ==
    /\ IF op \in {"ProcessCommands", "DestroyAllEntities"}
       THEN /\ op' = "none"
            /\ pc' = "idle"
            /\ it' = 0
            /\ life' = Settled(life)
       ELSE /\ op' = op
            /\ pc' = "sweep"
            /\ it' = 0
            /\ life' = life
    /\ UNCHANGED <<progVars, subscribers, ctx, handleIndex, subIdx, fault,
                   lastCall, issued, stray, cmdCount0, voted, votes, scen>>

\* The return of ProcessCommands to its caller.
ReturnFromProcessCommands ==
    /\ IF op = "ProcessCommands"
       THEN /\ op' = "none"
            /\ pc' = "idle"
            /\ it' = 0
            /\ life' = Settled(life)
       ELSE /\ op' = op
            /\ pc' = "sweep"
            /\ it' = 0
            /\ life' = life
    /\ UNCHANGED <<progVars, subscribers, ctx, handleIndex, subIdx, fault,
                   lastCall, issued, stray, cmdCount0, voted, votes, scen>>

\* One iteration of the loop of EntitySystem::ProcessCommands, up to the
\* first notification it raises (or the return, when the queue is empty).
LoopStep ==
    /\ UNCHANGED cmpVars
    /\ UNCHANGED cfgVars
    /\ UNCHANGED peak
    /\ Running("loop")
    /\ UNCHANGED dangling
    /\ callbacks' = IF m_commands = <<>> /\ op = "ProcessCommands"
                    THEN 0 ELSE callbacks
    /\ IF m_commands = <<>>
       THEN ReturnFromProcessCommands
       ELSE LET command == Head(m_commands)
                index == CalculateHandleIndex(command.handle)
                handleEntry == Entry(m_handles, index)
            IN  IF ~InRange(m_handles, index)
                THEN Halt("Out of bounds handle index!")
                ELSE IF command.type = "Create"
                THEN IF ~HandleEq(command.handle, handleEntry.handle)
                     THEN Halt("Attempting to create a non existing entity!")
                     ELSE IF HasFlag(handleEntry.flags, {Active})
                     THEN Halt("Attempting to create a handle that is already active!")
                     ELSE IF ~HasFlag(handleEntry.flags, {Valid})
                     THEN Halt("Attemping to create a handle that is not valid!")
                     ELSE /\ m_entityCount' = m_entityCount + 1
                          /\ cmdCount0' = m_entityCount
                          /\ handleIndex' = index
                          /\ IF subscribers > 0
                             THEN /\ pc' = "finalize"
                                  /\ subIdx' = 1
                                  /\ UNCHANGED <<m_handles, life, stray, voted>>
                             ELSE /\ ActivateHandle(index)
                                  /\ subIdx' = subIdx
                          /\ UNCHANGED votes
                          /\ UNCHANGED <<m_initialized, m_commands,
                                         m_freeListDequeue, m_freeListEnqueue,
                                         m_freeListIsEmpty, subscribers, op,
                                         ctx, it, fault, lastCall, issued, scen>>
                ELSE IF ~HandleEq(command.handle, handleEntry.handle)
                     THEN Halt("Attempting to destroy a non existing entity!")
                     ELSE /\ BeginDestroyHandle(index, "command")
                          /\ cmdCount0' = m_entityCount
                          /\ UNCHANGED <<progVars, subscribers, op, it, subIdx,
                                         fault, lastCall, issued, voted,
                                         votes, scen>>

\* CreateHandle goes on after a successful finalize while handleEntry refers
\* to storage the vector has released: the write of the Active flag and the
\* read of the handle are undefined; the build either stops there or the
\* write misses the table and events.create is raised all the same.
WriteThroughDangling(index) ==
    \/ Halt("handleEntry refers to released storage")
    \/ /\ life' = Emit(Entry(m_handles, index).handle, <<"create">>)
       /\ stray' = (stray \/ ~IsLatest(Entry(m_handles, index).handle))
       /\ voted' = "true"
       /\ votes' = Append(votes, TRUE)
       /\ pc' = "create"
       /\ UNCHANGED <<progVars, ctx, handleIndex, subIdx>>

\* A dispatcher that goes on to the remaining subscribers after a false and
\* lets the last result decide.
FinalizeVoteLastDecides(vote) ==
    /\ UNCHANGED cmpVars
    /\ UNCHANGED cfgVars
    /\ UNCHANGED peak
    /\ Running("finalize")
    /\ UNCHANGED <<dangling, callbacks>>
    /\ IF subIdx < subscribers
       THEN /\ subIdx' = subIdx + 1
            /\ votes' = Append(votes, vote)
            /\ UNCHANGED <<progVars, pc, ctx, handleIndex, life, stray, voted>>
       ELSE IF dangling
       THEN Halt("Missmatch between passed handle index and entry!")
       ELSE IF ~vote
       THEN /\ BeginDestroyHandle(handleIndex, "veto")
            /\ voted' = "false"
            /\ votes' = Append(votes, FALSE)
            /\ UNCHANGED <<progVars, subIdx>>
       ELSE /\ ActivateHandle(handleIndex)
            /\ votes' = Append(votes, TRUE)
            /\ UNCHANGED <<m_initialized, m_commands, m_entityCount,
                           m_freeListDequeue, m_freeListEnqueue,
                           m_freeListIsEmpty, ctx, handleIndex, subIdx>>
    /\ UNCHANGED <<subscribers, op, it, fault, lastCall, issued, cmdCount0, scen>>

\* events.finalize: subscriber subIdx returns `vote`; the dispatcher stops
\* at the first false and CreateHandle goes on with the collected result.
FinalizeVote(vote) ==
    /\ UNCHANGED cmpVars
    /\ UNCHANGED cfgVars
    /\ UNCHANGED peak
    /\ Running("finalize")
    /\ UNCHANGED <<dangling, callbacks>>
    /\ IF ~vote
       THEN IF dangling
            THEN Halt("Missmatch between passed handle index and entry!")
            ELSE /\ BeginDestroyHandle(handleIndex, "veto")
                 /\ voted' = "false"
                 /\ votes' = Append(votes, FALSE)
                 /\ UNCHANGED <<progVars, subIdx>>
       ELSE IF subIdx < subscribers
       THEN /\ subIdx' = subIdx + 1
            /\ votes' = Append(votes, TRUE)
            /\ UNCHANGED <<progVars, pc, ctx, handleIndex, life, stray, voted>>
       ELSE IF dangling
       THEN WriteThroughDangling(handleIndex)
       ELSE /\ ActivateHandle(handleIndex)
            /\ votes' = Append(votes, TRUE)
            /\ UNCHANGED <<m_initialized, m_commands, m_entityCount,
                           m_freeListDequeue, m_freeListEnqueue,
                           m_freeListIsEmpty, ctx, handleIndex, subIdx>>
    /\ UNCHANGED <<subscribers, op, it, fault, lastCall, issued, cmdCount0, scen>>

\* A loop that drops the whole queue once a Create command is applied.
CreateDeliveredClearsQueue ==
    /\ UNCHANGED cmpVars
    /\ UNCHANGED cfgVars
    /\ UNCHANGED peak
    /\ Running("create")
    /\ UNCHANGED callbacks
    /\ m_commands' = <<>>
    /\ pc' = "loop"
    /\ EndOfCommand
    /\ UNCHANGED <<m_initialized, m_handles, m_entityCount, m_freeListDequeue,
                   m_freeListEnqueue, m_freeListIsEmpty, subscribers, op, it,
                   fault, lastCall, issued, life, stray, scen>>

\* events.create has been delivered: CreateHandle returns and the loop pops
\* the command.
CreateDelivered ==
    /\ UNCHANGED cmpVars
    /\ UNCHANGED cfgVars
    /\ UNCHANGED peak
    /\ Running("create")
    /\ UNCHANGED callbacks
    /\ m_commands' = Tail(m_commands)
    /\ pc' = "loop"
    /\ EndOfCommand
    /\ UNCHANGED <<m_initialized, m_handles, m_entityCount, m_freeListDequeue,
                   m_freeListEnqueue, m_freeListIsEmpty, subscribers, op, it,
                   fault, lastCall, issued, life, stray, scen>>

\* events.destroy has been delivered: DestroyHandle frees the slot and
\* decrements the counter, then its caller goes on (the loop pops the
\* command, the sweep advances its iterator).
DestroyDelivered ==
    /\ UNCHANGED cmpVars
    /\ UNCHANGED cfgVars
    /\ UNCHANGED peak
    /\ Running("destroy")
    /\ UNCHANGED callbacks
    /\ LET r == DestroyHandleTail(CurrentList, handleIndex, m_entityCount)
       IN  IF dangling
           THEN /\ Halt("Missmatch between passed handle index and entry!")
                /\ UNCHANGED dangling
           ELSE IF r.fault # "none"
           THEN /\ Halt(r.fault)
                /\ UNCHANGED dangling
           ELSE /\ m_handles' = r.list.handles
                /\ m_freeListDequeue' = r.list.dequeue
                /\ m_freeListEnqueue' = r.list.enqueue
                /\ m_freeListIsEmpty' = r.list.isEmpty
                /\ m_entityCount' = r.count
                /\ IF ctx = "sweep"
                   THEN /\ it' = it + 1
                        /\ pc' = "sweep"
                        /\ UNCHANGED m_commands
                   ELSE /\ m_commands' = Tail(m_commands)
                        /\ pc' = "loop"
                        /\ UNCHANGED it
                /\ EndOfCommand
                /\ UNCHANGED <<m_initialized, subscribers, op, fault, lastCall,
                               issued, life, stray, scen>>

\* A sweep whose DestroyHandle frees the slot first and raises events.destroy
\* afterwards.
SweepStepFreesFirst ==
    /\ UNCHANGED cmpVars
    /\ UNCHANGED cfgVars
    /\ UNCHANGED peak
    /\ Running("sweep")
    /\ UNCHANGED dangling
    /\ callbacks' = IF it >= Len(m_handles) /\ op = "DestroyAllEntities"
                    THEN 0 ELSE callbacks
    /\ IF it >= Len(m_handles)
       THEN /\ IF op = "DestroyAllEntities"
               THEN /\ op' = "none"
                    /\ pc' = "idle"
                    /\ life' = Settled(life)
               ELSE /\ op' = op
                    /\ pc' = "cleanup"
                    /\ life' = life
            /\ it' = 0
            /\ UNCHANGED <<progVars, subscribers, ctx, handleIndex, subIdx,
                           fault, lastCall, issued, stray, cmdCount0, voted, votes, scen>>
       ELSE LET handleEntry == Entry(m_handles, it)
                index == CalculateHandleIndex(handleEntry.handle)
                r == DestroyHandleTail(CurrentList, index, m_entityCount)
            IN  IF HasFlag(handleEntry.flags, {Valid})
                THEN /\ BeginDestroyHandle(index, "sweep")
                     /\ m_handles' = r.list.handles
                     /\ m_freeListDequeue' = r.list.dequeue
                     /\ m_freeListEnqueue' = r.list.enqueue
                     /\ m_freeListIsEmpty' = r.list.isEmpty
                     /\ m_entityCount' = r.count
                     /\ UNCHANGED <<m_initialized, m_commands, subscribers, op,
                                    it, subIdx, fault, lastCall, issued,
                                    cmdCount0, voted, votes, scen>>
                ELSE /\ it' = it + 1
                     /\ UNCHANGED <<progVars, subscribers, op, pc, ctx,
                                    handleIndex, subIdx, fault, lastCall,
                                    histVars, scen>>

\* One iteration of the sweep of EntitySystem::DestroyAllEntities, up to
\* the notification it raises (or the return, at the end of the table).
SweepStep ==
    /\ UNCHANGED cmpVars
    /\ UNCHANGED cfgVars
    /\ UNCHANGED peak
    /\ Running("sweep")
    /\ UNCHANGED dangling
    /\ callbacks' = IF it >= Len(m_handles) /\ op = "DestroyAllEntities"
                    THEN 0 ELSE callbacks
    /\ IF it >= Len(m_handles)
       THEN /\ IF op = "DestroyAllEntities"
               THEN /\ op' = "none"
                    /\ pc' = "idle"
                    /\ life' = Settled(life)
               ELSE /\ op' = op
                    /\ pc' = "cleanup"
                    /\ life' = life
            /\ it' = 0
            /\ UNCHANGED <<progVars, subscribers, ctx, handleIndex, subIdx,
                           fault, lastCall, issued, stray, cmdCount0, voted, votes, scen>>
       ELSE LET handleEntry == Entry(m_handles, it)
                index == CalculateHandleIndex(handleEntry.handle)
            IN  IF HasFlag(handleEntry.flags, {Valid})
                THEN /\ BeginDestroyHandle(index, "sweep")
                     /\ UNCHANGED <<progVars, subscribers, op, it, subIdx, fault,
                                    lastCall, issued, cmdCount0, voted, votes, scen>>
                ELSE /\ it' = it + 1
                     /\ UNCHANGED <<progVars, subscribers, op, pc, ctx,
                                    handleIndex, subIdx, fault, lastCall,
                                    histVars, scen>>

\* The rest of EntitySystem::Cleanup after DestroyAllEntities: the state
\* checks, the resets, and for Initialize the final m_initialized = true.
CleanupTail ==
    /\ UNCHANGED cmpVars
    /\ UNCHANGED cfgVars
    /\ Running("cleanup")
    /\ UNCHANGED dangling
    /\ callbacks' = IF m_commands = <<>> /\ m_entityCount = 0
                    THEN 0 ELSE callbacks
    /\ IF m_commands # <<>>
       THEN /\ Halt("Cleaning up the entity system while there are unprocessed command left!")
            /\ UNCHANGED peak
       ELSE IF m_entityCount # 0
       THEN /\ Halt("Cleaning up the entity system while there are alive entities left!")
            /\ UNCHANGED peak
       ELSE /\ subscribers' = 0
            /\ peak' = 0
            /\ m_commands' = <<>>
            /\ m_handles' = <<>>
            /\ m_entityCount' = 0
            /\ m_freeListDequeue' = InvalidQueueElement
            /\ m_freeListEnqueue' = InvalidQueueElement
            /\ m_freeListIsEmpty' = TRUE
            /\ m_initialized' = (op = "Initialize")
            /\ scen' = IF op = "Initialize" THEN 0 ELSE -1
            /\ op' = "none"
            /\ pc' = "idle"
            /\ ctx' = "none"
            /\ handleIndex' = -1
            /\ it' = 0
            /\ subIdx' = 0
            /\ issued' = {}
            /\ life' = [i \in 1..MaximumIdentifier |-> NoLife]
            /\ stray' = FALSE
            /\ cmdCount0' = 0
            /\ voted' = "none"
            /\ votes' = <<>>
            /\ UNCHANGED <<fault, lastCall>>

\* ------------------------------------------------------------ callbacks
\* Handle values a subscriber passes in: the ones the system has given out
\* in this session (notifications and CreateEntity carry them) and the null
\* handle.
SubscriberHandles == issued \cup {NullHandle}

\* A subscriber that is being notified (finalize, create or destroy) calls
\* CreateEntity. When the call appends a slot, the vector may move its
\* storage; the handler that raised events.finalize or events.destroy still
\* holds handleEntry and uses it afterwards.
CallbackCreateEntity ==
    /\ UNCHANGED cmpVars
    /\ UNCHANGED cfgVars
    /\ pc \in {"finalize", "create", "destroy"}
    /\ fault = "none"
    /\ callbacks < MaxCallbacks
    /\ callbacks' = callbacks + 1
    /\ \E moved \in BOOLEAN :
          dangling' = \/ dangling
                      \/ /\ moved
                         /\ m_freeListIsEmpty
                         /\ Len(m_handles) < MaximumIdentifier
                         /\ pc \in {"finalize", "destroy"}
    /\ CreateEntityBody

\* A subscriber that is being notified calls DestroyEntity.
CallbackDestroyEntity(entity) ==
    /\ UNCHANGED cmpVars
    /\ UNCHANGED cfgVars
    /\ UNCHANGED peak
    /\ pc \in {"finalize", "create", "destroy"}
    /\ fault = "none"
    /\ callbacks < MaxCallbacks
    /\ callbacks' = callbacks + 1
    /\ UNCHANGED dangling
    /\ DestroyEntityBody(entity)

\* --------------------------------------------------- handle comparison
\* The handle values a client can hold: any identifier from -1 (not a value
\* the system gives out) to MaximumIdentifier with any version in range.
HandleValues ==
    {Handle(i, v) : i \in -1..MaximumIdentifier, v \in 0..MaxVersion + 1}

\* A client that holds two arbitrary handle values.
InitHandles ==
    /\ InitSystem
    /\ lhs \in HandleValues
    /\ rhs \in HandleValues
    /\ cmp = NoComparison

\* The client applies the comparison operators and the hash to its handles.
Compare ==
    /\ ~cmp.done
    /\ cmp' = [done |-> TRUE,
               eq |-> HandleEq(lhs, rhs),
               ne |-> HandleNe(lhs, rhs),
               lt |-> HandleLt(lhs, rhs),
               gt |-> HandleLt(rhs, lhs),
               hashLhs |-> HandleHash(lhs),
               hashRhs |-> HandleHash(rhs)]
    /\ UNCHANGED <<progVars, subscribers, ctlVars, dangling, callbacks, fault,
                   lastCall, histVars, scen, peak, lhs, rhs, cfgVars>>

NextHandles == Compare

SpecHandles == InitHandles /\ [][NextHandles]_vars

\* ------------------------------------------------------- specification
Next ==
    \/ Initialize
    \/ Cleanup
    \/ CreateEntity
    \/ \E entity \in CallerHandles : DestroyEntity(entity)
    \/ DestroyAllEntities
    \/ ProcessCommands
    \/ Subscribe
    \/ Unsubscribe
    \/ LoopStep
    \/ \E vote \in BOOLEAN : FinalizeVote(vote)
    \/ CreateDelivered
    \/ DestroyDelivered
    \/ SweepStep
    \/ CleanupTail

Spec == Init /\ [][Next]_vars

\* The same program with subscribers that call back into the entity system
\* while they are being notified.
NextReentrant ==
    \/ Next
    \/ CallbackCreateEntity
    \/ \E entity \in SubscriberHandles : CallbackDestroyEntity(entity)

SpecReentrant == Init /\ [][NextReentrant]_vars

\* The steps of the method that is running. A call runs on the caller's
\* thread until it returns and the subscribers return from the notifications
\* they are given, so these steps are taken as long as one of them is enabled.
Commit ==
    \/ LoopStep
    \/ \E vote \in BOOLEAN : FinalizeVote(vote)
    \/ CreateDelivered
    \/ DestroyDelivered
    \/ SweepStep
    \/ CleanupTail

\* The program whose calls run on until they return or stop.
SpecLive == Init /\ [][Next]_vars /\ WF_vars(Commit)

\* The program as far as its Config goes.
SpecConfig == Init /\ [][NextConfig]_vars

\* The client keeps a copy of a handle CreateEntity has returned to it.
KeepHandle(h) ==
    /\ Idle
    /\ h \in issued
    /\ lhs # h
    /\ lhs' = h
    /\ UNCHANGED <<progVars, subscribers, ctlVars, dangling, callbacks, fault,
                   lastCall, histVars, scen, peak, rhs, cmp, cfgVars>>

\* The same program with a client that holds on to a handle across calls,
\* Cleanup and Initialize included.
NextKeeping ==
    \/ Next
    \/ \E h \in HandleValues : KeepHandle(h)

SpecKeeping == Init /\ [][NextKeeping]_vars

\* The state the program is in after Initialize(); A = CreateEntity();
\* ProcessCommands(); B = CreateEntity(); DestroyEntity(B); DestroyEntity(A);
\* events.finalize.Subscribe(...): three commands wait in the queue, one
\* more than MaxQueue lets the client build up step by step.
InitBacklog ==
    /\ m_initialized = TRUE
    /\ m_handles = << [handle |-> Handle(1, 0), flags |-> {Valid, Active, Destroy},
                       nextFree |-> InvalidNextFree],
                      [handle |-> Handle(2, 0), flags |-> {Valid, Destroy},
                       nextFree |-> InvalidNextFree] >>
    /\ m_commands = << [type |-> "Create", handle |-> Handle(2, 0), by |-> "client"],
                       [type |-> "Destroy", handle |-> Handle(2, 0), by |-> "client"],
                       [type |-> "Destroy", handle |-> Handle(1, 0), by |-> "client"] >>
    /\ m_entityCount = 1
    /\ m_freeListDequeue = InvalidQueueElement
    /\ m_freeListEnqueue = InvalidQueueElement
    /\ m_freeListIsEmpty = TRUE
    /\ subscribers = 1
    /\ op = "none"
    /\ pc = "idle"
    /\ ctx = "none"
    /\ handleIndex = -1
    /\ it = 0
    /\ subIdx = 0
    /\ dangling = FALSE
    /\ callbacks = 0
    /\ fault = "none"
    /\ lastCall = Call("Subscribe", "none")
    /\ issued = {Handle(1, 0), Handle(2, 0)}
    /\ life = << [handle |-> Handle(1, 0), notes |-> <<"create">>],
                 [handle |-> Handle(2, 0), notes |-> <<>>],
                 NoLife >>
    /\ stray = FALSE
    /\ cmdCount0 = 0
    /\ voted = "none"
    /\ votes = <<>>
    /\ scen = -1
    /\ peak = 2
    /\ InitConfig
    /\ lhs = NullHandle
    /\ rhs = NullHandle
    /\ cmp = NoComparison

\* The program taken up with that backlog of requests.
SpecBacklog == InitBacklog /\ [][Next]_vars

\* ------------------------------------------------------------ properties
\* The slot a handle refers to (callers make sure the identifier is in range).
SlotOf(h) == Entry(m_handles, CalculateHandleIndex(h))

\* Number of occurrences of notification n in the sequence ns.
RECURSIVE Count(_, _)
Count(n, ns) ==
    IF ns = <<>> THEN 0
    ELSE (IF Head(ns) = n THEN 1 ELSE 0) + Count(n, Tail(ns))

\* The step is the return of a CreateEntity call that issued a handle.
CreateReturned ==
    /\ pc = "idle"
    /\ lastCall'.name = "CreateEntity"
    /\ lastCall'.kind = "handle"

\* The step is a DestroyEntity call given a handle of one of the `kinds`.
DestroyCalled(kinds) ==
    /\ pc = "idle"
    /\ lastCall'.name = "DestroyEntity"
    /\ lastCall'.kind \in kinds

\* C1: the reference scenario on a freshly initialized system without
\* finalize subscribers. A = CreateEntity() is (1, 0), valid, count 0; after
\* ProcessCommands the count is 1 and A valid; after DestroyEntity(A) A is
\* invalid and the count still 1; after ProcessCommands the count is 0; then
\* B = CreateEntity() is (1, 1), differs from A, A is invalid and B valid.
C1_Scenario ==
    LET A == Handle(1, 0)
        B == Handle(1, 1)
    IN  /\ scen = 1 =>
              /\ lastCall = Returned("CreateEntity", A)
              /\ IsHandleValid(A)
              /\ GetEntityCount = 0
        /\ (scen = 2 /\ pc = "idle") =>
              /\ GetEntityCount = 1
              /\ IsHandleValid(A)
        /\ scen = 3 =>
              /\ ~IsHandleValid(A)
              /\ GetEntityCount = 1
        /\ (scen = 4 /\ pc = "idle") => GetEntityCount = 0
        /\ scen = 5 =>
              /\ lastCall = Returned("CreateEntity", B)
              /\ HandleNe(B, A)
              /\ ~IsHandleValid(A)
              /\ IsHandleValid(B)
        /\ scen # -1 => fault = "none"

\* The scenario has been run to its end.
C1_Witness == scen = 5 /\ fault = "none"

\* C2: on an initialized system, for a handle whose identifier is within
\* 1..slot count, IsHandleValid is true exactly when the slot has Valid set,
\* does not have Destroy set and stores the handle's version; it is false
\* for identifier 0; and the Active flag of the slot does not matter.
C2_IsHandleValidMeaning ==
    m_initialized =>
        \A h \in CallerHandles :
            /\ h.identifier \in 1..Len(m_handles) =>
                  /\ IsHandleValid(h) <=>
                        /\ Valid \in SlotOf(h).flags
                        /\ Destroy \notin SlotOf(h).flags
                        /\ SlotOf(h).handle.version = h.version
                  /\ \A flip \in {SlotOf(h).flags \cup {Active},
                                  SlotOf(h).flags \ {Active}} :
                        IsHandleValidIn(m_initialized,
                            [m_handles EXCEPT ![h.identifier].flags = flip], h)
                        = IsHandleValid(h)
            /\ h.identifier = 0 => ~IsHandleValid(h)

\* Valid handles on a slot that is not Active and on one that is, and a
\* handle that is invalid because its destruction is pending.
C2_Witness ==
    /\ m_initialized
    /\ \E a, b, c \in issued :
          /\ IsHandleValid(a) /\ Active \notin SlotOf(a).flags
          /\ IsHandleValid(b) /\ Active \in SlotOf(b).flags
          /\ ~IsHandleValid(c) /\ SlotOf(c).flags = {Valid, Active, Destroy}
                               /\ SlotOf(c).handle = c

\* C3 as stated: a handle returned by CreateEntity is valid at once, and it
\* stops being valid only by a DestroyEntity call on it or while
\* DestroyAllEntities / Cleanup runs.
C3_Original ==
    [][/\ CreateReturned => IsHandleValidIn(m_initialized', m_handles', lastCall'.handle)
       /\ \A h \in issued :
             (IsHandleValid(h) /\ ~IsHandleValid(h)') =>
                 \/ DestroyCalled({"live"}) /\ Destroy \in SlotOf(h).flags'
                 \/ op \in {"DestroyAllEntities", "Cleanup", "Initialize"}
      ]_vars

\* C3 as amended: the handle also stops being valid when its finalize vote
\* fails during a commit (the slot is freed by that command).
C3_ValidUntilDestroyed ==
    [][/\ CreateReturned => IsHandleValidIn(m_initialized', m_handles', lastCall'.handle)
       /\ \A h \in issued :
             (IsHandleValid(h) /\ ~IsHandleValid(h)') =>
                 \/ DestroyCalled({"live"}) /\ Destroy \in SlotOf(h).flags'
                 \/ op \in {"DestroyAllEntities", "Cleanup", "Initialize"}
                 \/ /\ pc = "destroy" /\ ctx = "veto" /\ voted = "false"
                    /\ handleIndex = CalculateHandleIndex(h)
      ]_vars

\* A handle that went through a commit (with a finalize vote) and is still
\* valid, next to a slot whose creation was vetoed in the same drain.
C3_Witness ==
    /\ pc = "loop"
    /\ \E h \in issued :
          /\ IsHandleValid(h)
          /\ Active \in SlotOf(h).flags
    /\ \E i \in DOMAIN life :
          /\ life[i].notes = <<"destroy">>
          /\ life[i].handle \in issued
          /\ ~IsHandleValid(life[i].handle)

\* C4: when CreateEntity reuses a slot, the new handle has a strictly
\* greater version than every handle issued before for that identifier,
\* each of those is invalid, and the new handle is valid.
C4_ReuseBumpsGeneration ==
    [][CreateReturned =>
          LET r == lastCall'.handle
          IN  /\ r.identifier = Len(m_handles') \/ r.identifier \in 1..Len(m_handles)
              /\ \A h \in issued :
                    h.identifier = r.identifier =>
                        /\ h.version < r.version
                        /\ ~IsHandleValid(h)'
              /\ IsHandleValidIn(m_initialized', m_handles', r)
      ]_vars

\* CreateEntity has just reused a slot for the second time.
C4_Witness ==
    /\ lastCall.name = "CreateEntity"
    /\ lastCall.kind = "handle"
    /\ lastCall.handle.version >= 1
    /\ \E h \in issued : /\ h.identifier = lastCall.handle.identifier
                         /\ h.version < lastCall.handle.version

\* C5: within a session CreateEntity never returns a handle it has returned
\* before, and a returned handle that is invalid never becomes valid again.
C5_HandlesNeverComeBack ==
    [][issued \subseteq issued' =>
          /\ CreateReturned => lastCall'.handle \notin issued
          /\ \A h \in issued : ~IsHandleValid(h) => ~IsHandleValid(h)'
      ]_vars

\* An invalid handle whose slot is in use again under a newer valid handle.
C5_Witness ==
    \E h \in issued :
        /\ ~IsHandleValid(h)
        /\ IsHandleValid(Handle(h.identifier, h.version + 1))
        /\ Handle(h.identifier, h.version + 1) \in issued

\* The handle of the command at the head of the queue.
HeadHandle == Head(m_commands).handle

\* C6: a Create command whose finalize vote is true (or that has no
\* subscriber to ask) ends with its slot Active, exactly one "create"
\* notification for its handle and no other, and the entity count one above
\* its value before the command; no handle ever gets a second "create".
C6_CreateCommits ==
    [][/\ (pc = "loop" /\ pc' = "create") => subscribers = 0
       /\ (pc = "finalize" /\ pc' # "finalize" /\ voted' # "false") =>
              pc' = "create"
       /\ pc' = "create" => voted' = "true"
       /\ pc = "create" =>
              /\ voted = "true"
              /\ Head(m_commands).type = "Create"
              /\ handleIndex = CalculateHandleIndex(HeadHandle)
              /\ fault' = "none"
              /\ pc' = "loop"
              /\ m_commands' = Tail(m_commands)
              /\ Entry(m_handles', handleIndex).handle = HeadHandle
              /\ Active \in Entry(m_handles', handleIndex).flags
              /\ life'[HeadHandle.identifier] =
                     [handle |-> HeadHandle, notes |-> <<"create">>]
              /\ ~stray'
              /\ m_entityCount' = cmdCount0 + 1
       /\ \A i \in DOMAIN life' : Count("create", life'[i].notes) <= 1
      ]_vars

\* The finalize vote of two subscribers has just come out true.
C6_Witness ==
    /\ pc = "create" /\ voted = "true" /\ subscribers = 2 /\ subIdx = 2

\* C7: when the finalize vote of a pending creation is false, no "create"
\* and exactly one "destroy" notification is emitted for the handle, the
\* slot never has Active set and ends Free on the free list, the handle is
\* invalid afterwards, and the entity count is back at its value before the
\* command.
C7_VetoedCreation ==
    [][/\ (pc = "finalize" /\ voted' = "false") =>
              /\ pc' = "destroy" /\ ctx' = "veto"
              /\ handleIndex' = CalculateHandleIndex(HeadHandle)
       /\ (pc' = "finalize" \/ (pc' = "destroy" /\ ctx' = "veto")) =>
              /\ Active \notin Entry(m_handles', handleIndex').flags
              /\ "create" \notin
                    {life'[handleIndex' + 1].notes[k] :
                         k \in DOMAIN life'[handleIndex' + 1].notes}
       /\ (pc = "destroy" /\ ctx = "veto") =>
              /\ Head(m_commands).type = "Create"
              /\ handleIndex = CalculateHandleIndex(HeadHandle)
              /\ life[HeadHandle.identifier] =
                     [handle |-> HeadHandle, notes |-> <<"destroy">>]
              /\ fault' = "none"
              /\ life' = life
              /\ ~stray'
              /\ m_commands' = Tail(m_commands)
              /\ Entry(m_handles', handleIndex).flags = Free
              /\ \E k \in 1..Len(m_handles') :
                    FreeChain(m_handles', m_freeListDequeue',
                              Len(m_handles'))[k] = handleIndex
              /\ ~m_freeListIsEmpty'
              /\ ~IsHandleValidIn(m_initialized', m_handles', HeadHandle)
              /\ m_entityCount' = cmdCount0
      ]_vars

\* A vetoed creation has completed: its slot is Free, the only notification
\* for it was "destroy"; another entity is alive.
C7_Witness ==
    /\ pc = "loop"
    /\ fault = "none"
    /\ m_entityCount = 1
    /\ \E i \in 1..Len(m_handles) :
          /\ m_handles[i].flags = Free
          /\ life[i].notes = <<"destroy">>
          /\ life[i].handle \in issued
          /\ ~IsHandleValid(life[i].handle)

\* Number of Destroy commands in the queue q for handle h.
RECURSIVE DestroysQueued(_, _)
DestroysQueued(q, h) ==
    IF q = <<>> THEN 0
    ELSE (IF Head(q).type = "Destroy" /\ Head(q).handle = h THEN 1 ELSE 0)
         + DestroysQueued(Tail(q), h)

\* C8: DestroyEntity on a handle whose destruction is already pending
\* changes nothing; no handle has two Destroy commands queued; a Destroy
\* command lowers the entity count by exactly one and its handle gets
\* exactly one "destroy" notification, never a second.
C8_DestroyIdempotent ==
    [][/\ DestroyCalled({"pending"}) =>
              /\ UNCHANGED <<progVars, subscribers, ctlVars, histVars>>
              /\ fault' = "none"
       /\ \A h \in issued' : DestroysQueued(m_commands', h) <= 1
       /\ \A i \in DOMAIN life' : Count("destroy", life'[i].notes) <= 1
       /\ ~stray'
       /\ (pc = "destroy" /\ ctx = "command") =>
              /\ Head(m_commands).type = "Destroy"
              /\ handleIndex = CalculateHandleIndex(HeadHandle)
              /\ fault' = "none"
              /\ m_commands' = Tail(m_commands)
              /\ m_entityCount' = cmdCount0 - 1
              /\ Count("destroy", life'[HeadHandle.identifier].notes) = 1
              /\ DestroysQueued(m_commands', HeadHandle) = 0
      ]_vars

\* DestroyEntity was just called again on a handle that is pending
\* destruction, and was ignored.
C8_Witness ==
    /\ lastCall = Call("DestroyEntity", "pending")
    /\ fault = "none"
    /\ \E h \in issued : DestroysQueued(m_commands, h) = 1

C10_UninitializedNoOps ==
    [][/\ ~m_initialized =>
              \A h \in CallerHandles : ~IsHandleValid(h)
       /\ ~m_initialized' =>
              \A h \in CallerHandles :
                  ~IsHandleValidIn(m_initialized', m_handles', h)
       /\ (~m_initialized /\ pc = "idle" /\
           lastCall'.name \in {"CreateEntity", "DestroyEntity",
                               "DestroyAllEntities", "ProcessCommands"}) =>
              /\ UNCHANGED <<progVars, subscribers, ctlVars, histVars>>
              /\ fault' = "none"
              /\ lastCall'.handle = NullHandle
              /\ lastCall'.name = "CreateEntity" => lastCall'.kind = "null"
      ]_vars

\* CreateEntity was just called on a system that is not initialized.
C10_Witness ==
    /\ ~m_initialized
    /\ lastCall = Call("CreateEntity", "null")
    /\ m_handles = <<>>

\* Number of slots of the table that have the Active flag set.
ActiveSlots(handles) ==
    Cardinality({i \in 1..Len(handles) : Active \in handles[i].flags})

\* C11 as stated: whenever no commit is in progress GetEntityCount equals
\* the number of slots with Active set, and a CreateEntity or DestroyEntity
\* call never changes the count.
C11_CountIsActiveSlots ==
    [][/\ pc = "idle" => GetEntityCount = ActiveSlots(m_handles)
       /\ pc' = "idle" => m_entityCount' = ActiveSlots(m_handles')
       /\ (pc = "idle" /\ lastCall'.name \in {"CreateEntity", "DestroyEntity"})
              => m_entityCount' = m_entityCount
      ]_vars

\* C12: in every state the handle stored in slot i (counted from 0) has
\* identifier i + 1, so no step changes the identifier stored in a slot.
C12_IdentifierIsIndexPlusOne ==
    \A i \in 1..Len(m_handles) :
        /\ m_handles[i].handle.identifier = i
        /\ CalculateHandleIndex(m_handles[i].handle) = i - 1

\* Three slots, one of them freed and reissued (its version moved, its
\* identifier did not).
C12_Witness ==
    /\ Len(m_handles) = 3
    /\ \E i \in 1..3 : /\ m_handles[i].handle = Handle(i, 1)
                       /\ m_handles[i].flags = {Valid, Active}

\* C13: a slot's version is 0 when the slot is appended, grows by exactly
\* one in a step that takes the slot from Valid to Free, and is changed by
\* no other step.
C13_GenerationCountsFrees ==
    [][\A i \in 1..Len(m_handles') :
          IF i > Len(m_handles)
          THEN m_handles'[i].handle.version = 0
          ELSE IF Valid \in m_handles[i].flags /\ m_handles'[i].flags = Free
          THEN m_handles'[i].handle.version = m_handles[i].handle.version + 1
          ELSE /\ m_handles'[i].handle.version = m_handles[i].handle.version
               /\ (m_handles[i].flags = Free \/ m_handles'[i].flags # Free)
      ]_vars

\* A slot that has been freed twice, next to one that was never freed.
C13_Witness ==
    \E i, j \in 1..Len(m_handles) :
        /\ m_handles[i].handle.version = 2
        /\ m_handles[i].flags = Free
        /\ m_handles[j].handle.version = 0
        /\ m_handles[j].flags # Free

\* The free list as the sequence of slot indices from the head.
Chain == FreeChain(m_handles, m_freeListDequeue, Len(m_handles) + 1)

\* C14: the chain from the head of the free list along nextFree has no
\* repeated slot, ends at the tail, and holds exactly the Free slots; no
\* slot with a flag set is on it.
C14_FreeListIsTheFreeSlots ==
    /\ Len(Chain) <= Len(m_handles)
    /\ \A k, l \in 1..Len(Chain) : Chain[k] = Chain[l] => k = l
    /\ {Chain[k] + 1 : k \in 1..Len(Chain)}
           = {i \in 1..Len(m_handles) : m_handles[i].flags = Free}
    /\ \A k \in 1..Len(Chain) : m_handles[Chain[k] + 1].flags \cap AllFlags = {}
    /\ Chain # <<>> => Chain[Len(Chain)] = m_freeListEnqueue
    /\ Chain = <<>> <=> m_freeListIsEmpty

\* Two slots on the free list, in an order other than that of their
\* indices, while a third slot is in use.
C14_Witness ==
    /\ Len(Chain) = 2
    /\ Chain[1] > Chain[2]
    /\ \E i \in 1..Len(m_handles) : m_handles[i].flags = {Valid, Active}


\* The command ProcessCommands is applying: a notification of the loop (not
\* of the sweep) is being delivered.
Applying == pc \in {"finalize", "create", "destroy"} /\ ctx # "sweep"

\* C15: ProcessCommands applies the commands in the order of the queue, one
\* at a time. Every step leaves the queue alone, appends one command at its
\* tail, or removes its head; the head is removed only when the loop has
\* applied it (the notification of that very command has been delivered);
\* the command being applied is always the head; the loop starts a command
\* without touching the queue; and the drain ends only on an empty queue, so
\* a command a subscriber appended meanwhile is applied in the same call,
\* after everything that was in front of it.
C15_FifoDrain ==
    [][/\ \/ m_commands' = m_commands
          \/ /\ Len(m_commands') = Len(m_commands) + 1
             /\ SubSeq(m_commands', 1, Len(m_commands)) = m_commands
          \/ /\ m_commands # <<>>
             /\ m_commands' = Tail(m_commands)
       /\ Len(m_commands') < Len(m_commands)
            => /\ Applying
               /\ pc \in {"create", "destroy"}
               /\ pc' = "loop"
               /\ Head(m_commands).type = "Create"
                     => pc = "create" \/ ctx = "veto"
               /\ Head(m_commands).type = "Destroy"
                     => pc = "destroy" /\ ctx = "command"
       /\ Applying
            => /\ m_commands # <<>>
               /\ CalculateHandleIndex(Head(m_commands).handle) = handleIndex
       /\ (pc = "loop" /\ pc' \in {"finalize", "create", "destroy"})
            => /\ m_commands' = m_commands
               /\ handleIndex' = CalculateHandleIndex(Head(m_commands).handle)
       /\ (pc = "loop" /\ pc' \in {"idle", "sweep"}) => m_commands = <<>>
      ]_vars

\* ProcessCommands is applying a command that a subscriber enqueued during
\* this very drain.
C15_Witness ==
    /\ op = "ProcessCommands"
    /\ pc \in {"create", "destroy"}
    /\ ctx # "sweep"
    /\ Head(m_commands).by = "subscriber"
    /\ callbacks = 1

\* The loop of ProcessCommands is about to take a command whose handle is not
\* the one its slot stores.
StaleHead ==
    /\ pc = "loop"
    /\ fault = "none"
    /\ m_commands # <<>>
    /\ InRange(m_handles, CalculateHandleIndex(Head(m_commands).handle))
    /\ ~HandleEq(Head(m_commands).handle,
                 Entry(m_handles, CalculateHandleIndex(Head(m_commands).handle)).handle)

\* C16 as stated: a command whose handle no longer equals the handle stored
\* in its slot is skipped: the step of the loop that takes it raises no
\* fault, emits no notification, changes no slot, free list or count, and
\* only removes the command, so that the drain goes on with the next one.
C16_StaleCommandSkipped ==
    [][StaleHead
         => /\ fault' = "none"
            /\ m_commands' = Tail(m_commands)
            /\ pc' = "loop"
            /\ UNCHANGED <<m_handles, m_entityCount, m_freeListDequeue,
                           m_freeListEnqueue, m_freeListIsEmpty, life>>
      ]_vars

\* Whether slot `index` is on the free list of the given table.
OnFreeList(handles, dequeue, index) ==
    LET chain == FreeChain(handles, dequeue, Len(handles))
    IN  \E k \in 1..Len(chain) : chain[k] = index

\* C17: the "destroy" notification comes before the slot is freed. The step
\* that raises it emits the handle the slot stores and changes neither the
\* table, the free list nor the count; as long as it is being delivered the
\* slot keeps Valid and its handle and is not on the free list; the step
\* after the delivery sets the slot to Free, increments its generation,
\* makes it the tail of the free list and decrements the count.
C17_DestroyNotifiedBeforeFree ==
    [][/\ (pc # "destroy" /\ pc' = "destroy")
            => /\ UNCHANGED <<m_handles, m_entityCount, m_freeListDequeue,
                              m_freeListEnqueue, m_freeListIsEmpty>>
               /\ life' = Emit(Entry(m_handles, handleIndex').handle, <<"destroy">>)
       /\ pc' = "destroy"
            => /\ InRange(m_handles', handleIndex')
               /\ Valid \in Entry(m_handles', handleIndex').flags
               /\ ~OnFreeList(m_handles', m_freeListDequeue', handleIndex')
       /\ (pc = "destroy" /\ pc' = "destroy")
            => /\ handleIndex' = handleIndex
               /\ Entry(m_handles', handleIndex).handle
                     = Entry(m_handles, handleIndex).handle
       /\ (pc = "destroy" /\ pc' # "destroy")
            => /\ Entry(m_handles', handleIndex).flags = Free
               /\ Entry(m_handles', handleIndex).handle
                     = Handle(handleIndex + 1,
                              Entry(m_handles, handleIndex).handle.version + 1)
               /\ m_freeListEnqueue' = handleIndex
               /\ ~m_freeListIsEmpty'
               /\ Entry(m_handles', handleIndex).nextFree = InvalidNextFree
               /\ OnFreeList(m_handles', m_freeListDequeue', handleIndex)
               /\ m_entityCount' = m_entityCount - 1
      ]_vars

\* A "destroy" notification has been delivered and its slot freed behind
\* another free slot, while a subscriber had called DestroyEntity for the
\* same handle during the delivery.
C17_Witness ==
    /\ pc \in {"loop", "sweep"}
    /\ fault = "none"
    /\ Len(Chain) = 2
    /\ \E k \in 1..Len(m_commands) :
          /\ m_commands[k].by = "subscriber"
          /\ m_commands[k].type = "Destroy"
          /\ m_commands[k].handle.identifier = m_freeListEnqueue + 1
          /\ m_commands[k].handle.version + 1
                = Entry(m_handles, m_freeListEnqueue).handle.version

\* The logical AND of the results collected so far.
AllTrue(results) == \A k \in 1..Len(results) : results[k]

\* C18: the finalize vote. With no subscriber the vote is true and nobody is
\* invoked. Otherwise the subscribers are invoked in subscription order (the
\* one being invoked is the next after those that have returned), only the
\* last result collected can be false (nobody is invoked after a false), and
\* the vote is the AND of the collected results: true exactly when every
\* subscriber was invoked and returned true, false exactly when the last
\* one invoked returned false.
C18_FinalizeVote ==
    /\ Len(votes) <= subscribers
    /\ \A k \in 1..Len(votes) : k < Len(votes) => votes[k]
    /\ pc = "finalize"
          => /\ voted = "none"
             /\ subIdx = Len(votes) + 1
             /\ subIdx <= subscribers
             /\ AllTrue(votes)
    /\ pc = "create"
          => /\ voted = "true"
             /\ Len(votes) = subscribers
    /\ voted = "true" => pc = "create" /\ AllTrue(votes)
    /\ voted = "false"
          => /\ pc = "destroy" /\ ctx = "veto"
             /\ ~AllTrue(votes)
             /\ subIdx = Len(votes)
    /\ voted = "none" /\ pc # "finalize" => votes = <<>>
    /\ subscribers = 0 => pc # "finalize" /\ voted # "false" /\ votes = <<>>

\* A vote that the second of two subscribers turned down after the first
\* had approved, while another entity is alive.
C18_Witness ==
    /\ subscribers = 2
    /\ votes = <<TRUE, FALSE>>
    /\ voted = "false"
    /\ pc = "destroy"
    /\ m_entityCount = 2

\* Nothing is left of any entity: no command, no flag, every slot on the free
\* list, no live count, no handle given out so far valid.
AllDestroyed ==
    /\ m_commands = <<>>
    /\ \A i \in 1..Len(m_handles) :
          /\ m_handles[i].flags \cap {Valid, Active, Destroy} = {}
          /\ OnFreeList(m_handles, m_freeListDequeue, i - 1)
    /\ GetEntityCount = 0
    /\ \A h \in issued : ~IsHandleValid(h)

\* C19: with subscribers that do not call back, DestroyAllEntities on an
\* initialized system leaves nothing behind. When its sweep has reached the
\* end of the table, and again once it has returned, the queue is empty, no
\* slot has a flag set, every slot is on the free list, the count is 0 and
\* every handle given out is invalid; and every entity that existed when it
\* was called (committed or still pending) got exactly one "destroy"
\* notification, as the last one carrying its handle.
C19_DestroyAllEntities ==
    /\ (op = "DestroyAllEntities" /\ pc = "sweep" /\ it >= Len(m_handles))
          => /\ AllDestroyed
             /\ ~stray
             /\ \A i \in 1..MaximumIdentifier :
                   life[i] # NoLife
                      => /\ Count("destroy", life[i].notes) = 1
                         /\ life[i].notes[Len(life[i].notes)] = "destroy"
                         /\ ~IsHandleValid(life[i].handle)
    /\ (pc = "idle" /\ m_initialized /\ lastCall.name = "DestroyAllEntities")
          => AllDestroyed

\* DestroyAllEntities is about to return after it destroyed two entities,
\* each announced by "create" and then by "destroy".
C19_Witness ==
    /\ op = "DestroyAllEntities"
    /\ pc = "sweep"
    /\ fault = "none"
    /\ it >= Len(m_handles)
    /\ Len(m_handles) = 2
    /\ \A i \in 1..2 : life[i].notes = <<"create", "destroy">>
    /\ lastCall.name = "DestroyAllEntities"

\* The step is a call of CreateEntity or DestroyEntity, by the client between
\* commits or by a subscriber during one.
Request ==
    \/ /\ pc = "idle"
       /\ pc' = "idle"
       /\ lastCall'.name \in {"CreateEntity", "DestroyEntity"}
    \/ callbacks' = callbacks + 1

\* C20: requests are invisible until the commit. A call of CreateEntity or
\* DestroyEntity, and any other step between two commits, emits no
\* notification, changes no slot's Active flag, no slot's generation and not
\* the count; a slot it adds is not Active; a slot it marks for destruction
\* keeps its other flags; and no slot that is in use is on the free list
\* afterwards.
C20_RequestsInvisibleUntilCommit ==
    [][(Request \/ (pc = "idle" /\ pc' = "idle"))
         => /\ m_entityCount' = m_entityCount
            /\ Len(m_handles') >= Len(m_handles)
            /\ \A i \in 1..Len(m_handles') :
                  /\ IF i > Len(m_handles)
                     THEN /\ Active \notin m_handles'[i].flags
                          /\ m_handles'[i].handle.version = 0
                     ELSE /\ Active \in m_handles'[i].flags
                              <=> Active \in m_handles[i].flags
                          /\ m_handles'[i].handle = m_handles[i].handle
                          /\ Destroy \in m_handles'[i].flags
                              => m_handles'[i].flags
                                    = m_handles[i].flags \cup {Destroy}
                  /\ Valid \in m_handles'[i].flags
                        => ~OnFreeList(m_handles', m_freeListDequeue', i - 1)
            /\ \A i \in DOMAIN life :
                  \/ life'[i].notes = life[i].notes
                  \/ /\ life'[i].notes = <<>>
                     /\ life'[i].handle \in issued' \ issued
            /\ stray' = stray
      ]_vars

\* Between two commits: one entity is committed and marked for destruction,
\* still Active; another one was created after it and is not Active yet.
C20_Witness ==
    /\ pc = "idle"
    /\ fault = "none"
    /\ GetEntityCount = 1
    /\ Len(m_commands) = 2
    /\ \E i, j \in 1..Len(m_handles) :
          /\ m_handles[i].flags = {Valid, Active, Destroy}
          /\ m_handles[j].flags = {Valid}
          /\ m_commands[1] = [type |-> "Destroy", handle |-> m_handles[i].handle,
                              by |-> "client"]
          /\ m_commands[2] = [type |-> "Create", handle |-> m_handles[j].handle,
                              by |-> "client"]

\* The step is the part of a commit that activates a slot (CreateHandle
\* after a successful vote).
Activates == pc \in {"loop", "finalize"} /\ pc' = "create"

\* The step is the part of a commit that frees a slot (DestroyHandle after
\* its notification).
Frees == pc = "destroy" /\ pc' # "destroy"

\* The lifecycle edges of the claim: from flags f to flags g in this step.
StatedEdge(f, g) ==
    \/ f = Free /\ g = {Valid} /\ Request
    \/ f = {Valid} /\ g = {Valid, Active} /\ Activates
    \/ f = {Valid} /\ g = Free /\ Frees /\ ctx = "veto"
    \/ f = {Valid, Active} /\ g = {Valid, Active, Destroy} /\ Request
    \/ f = {Valid, Active, Destroy} /\ g = Free /\ Frees

\* The edges the claim leaves out: DestroyEntity on an entity whose creation
\* is still pending, the commit of such an entity, and the sweep of
\* DestroyAllEntities, which frees slots that were never marked.
FurtherEdge(f, g) ==
    \/ f = {Valid} /\ g = {Valid, Destroy} /\ Request
    \/ f = {Valid, Destroy} /\ g = {Valid, Active, Destroy} /\ Activates
    \/ f = {Valid, Destroy} /\ g = Free /\ Frees /\ ctx = "veto"
    \/ Valid \in f /\ g = Free /\ Frees /\ ctx = "sweep"

\* C21 as stated: every change of a slot's flags is one of the five stated
\* edges, and the table never loses a slot during a session.
C21_Original ==
    [][pc # "cleanup"
         => /\ Len(m_handles') >= Len(m_handles)
            /\ \A i \in 1..Len(m_handles) :
                  \/ m_handles'[i].flags = m_handles[i].flags
                  \/ StatedEdge(m_handles[i].flags, m_handles'[i].flags)
      ]_vars

\* C21, amended: every change of a slot's flags is one of the stated edges
\* or one of the further ones (Valid -> Valid|Destroy by DestroyEntity,
\* Valid|Destroy -> Valid|Active|Destroy or Free by the commit of the
\* creation, any slot in use -> Free by the sweep of DestroyAllEntities); a
\* slot enters the table as Valid; the table loses slots only when Cleanup
\* resets it.
C21_LifecycleEdges ==
    [][pc # "cleanup"
         => /\ Len(m_handles') >= Len(m_handles)
            /\ \A i \in 1..Len(m_handles') :
                  IF i > Len(m_handles)
                  THEN m_handles'[i].flags = {Valid} /\ Request
                  ELSE \/ m_handles'[i].flags = m_handles[i].flags
                       \/ StatedEdge(m_handles[i].flags, m_handles'[i].flags)
                       \/ FurtherEdge(m_handles[i].flags, m_handles'[i].flags)
      ]_vars

\* A creation is being announced for an entity that was marked for
\* destruction while it was pending, after another slot has been freed.
C21_Witness ==
    /\ pc = "create"
    /\ fault = "none"
    /\ Entry(m_handles, handleIndex).flags = {Valid, Active, Destroy}
    /\ \E i \in 1..Len(m_handles) :
          m_handles[i].flags = Free /\ m_handles[i].handle.version = 1

\* The free list after the step, as the sequence of slot indices.
ChainAfter == FreeChain(m_handles', m_freeListDequeue', Len(m_handles') + 1)

\* The step is a CreateEntity that issues a handle (its command is queued).
Issues ==
    /\ Request
    /\ Len(m_commands') = Len(m_commands) + 1
    /\ m_commands'[Len(m_commands')].type = "Create"

\* C22: slot reuse is FIFO. A CreateEntity that issues a handle takes the
\* slot at the head of the free list and leaves the rest of the list in
\* order; it appends a slot to the table exactly when the list is empty, and
\* then issues that new slot. The step that frees a slot appends it at the
\* tail. No other step within a session changes the list or the size of the
\* table, so free slots are reissued in the order in which they were freed.
C22_ReuseIsFifo ==
    [][pc # "cleanup"
         => LET before == Chain
                after == ChainAfter
            IN  IF Issues
                THEN LET issuedIndex ==
                           CalculateHandleIndex(m_commands'[Len(m_commands')].handle)
                     IN  IF m_freeListIsEmpty
                         THEN /\ before = <<>>
                              /\ Len(m_handles') = Len(m_handles) + 1
                              /\ issuedIndex = Len(m_handles)
                              /\ after = <<>>
                         ELSE /\ Len(m_handles') = Len(m_handles)
                              /\ issuedIndex = m_freeListDequeue
                              /\ issuedIndex = Head(before)
                              /\ after = Tail(before)
                ELSE /\ Len(m_handles') = Len(m_handles)
                     /\ IF Frees
                        THEN after = Append(before, handleIndex)
                        ELSE after = before
      ]_vars

\* Two slots were freed, the higher one first, and CreateEntity has just
\* reissued the one freed first: the other one is now the whole list.
C22_Witness ==
    /\ pc = "idle"
    /\ fault = "none"
    /\ Len(m_handles) = 2
    /\ lastCall = Returned("CreateEntity", Handle(2, 1))
    /\ m_handles[2].flags = {Valid}
    /\ Chain = <<0>>
    /\ m_handles[1].handle.version = 1

\* The message of the capacity check of CreateEntity.
CapacityFault == "Entity handle identifier reached its numerical limit!"

\* C23 as stated: a CreateEntity call on an initialized system raises the
\* capacity fault exactly when the free list is empty (a slot would have to
\* be appended) and the table already has MaximumIdentifier slots; a call
\* that can be served from the free list never raises it; and the table
\* never has more than MaximumIdentifier slots.
C23_CapacityFaultOnlyWhenAppending ==
    [][/\ Len(m_handles') <= MaximumIdentifier
       /\ (Idle /\ m_initialized /\ lastCall'.name = "CreateEntity")
            => (fault' = CapacityFault
                  <=> m_freeListIsEmpty /\ Len(m_handles) = MaximumIdentifier)
      ]_vars

\* C24: the comparison operators and the hash of handles. For the two
\* handles compared: == is true exactly when identifier and version both
\* match, != is the negation of ==, < (either way round) compares the
\* identifiers alone, equal handles have equal hashes, and the hash of a
\* handle with a non-negative identifier is that identifier.
C24_HandleComparison ==
    cmp.done
       => /\ cmp.eq <=> (lhs.identifier = rhs.identifier
                           /\ lhs.version = rhs.version)
          /\ cmp.ne <=> ~cmp.eq
          /\ cmp.lt <=> lhs.identifier < rhs.identifier
          /\ cmp.gt <=> rhs.identifier < lhs.identifier
          /\ cmp.eq => cmp.hashLhs = cmp.hashRhs
          /\ lhs.identifier >= 0
                => cmp.hashLhs = [wraps |-> 0, offset |-> lhs.identifier]

\* Two handles of the same slot from different generations were compared:
\* they differ, neither sorts before the other, and their hashes collide.
C24_Witness ==
    /\ cmp.done
    /\ lhs.identifier = rhs.identifier
    /\ lhs.identifier > 0
    /\ lhs.version < rhs.version
    /\ cmp.ne /\ ~cmp.eq /\ ~cmp.lt /\ ~cmp.gt
    /\ cmp.hashLhs = cmp.hashRhs

\* The five states of a slot.
SlotStates ==
    {Free, {Valid}, {Valid, Destroy}, {Valid, Active}, {Valid, Active, Destroy}}

\* C25: in every state each slot's flags are one of the five combinations
\* Free, Valid, Valid|Destroy, Valid|Active, Valid|Active|Destroy; Active or
\* Destroy is never set without Valid.
C25_FlagCombinations ==
    \A i \in 1..Len(m_handles) :
        /\ m_handles[i].flags \in SlotStates
        /\ m_handles[i].flags \cap {Active, Destroy} # {}
              => Valid \in m_handles[i].flags

\* Three slots in three different states: one free again, one pending and
\* already marked for destruction, one committed and marked for destruction.
C25_Witness ==
    /\ Len(m_handles) = 3
    /\ \E i, j, k \in 1..3 :
          /\ m_handles[i].flags = Free /\ m_handles[i].handle.version = 1
          /\ m_handles[j].flags = {Valid, Destroy}
          /\ m_handles[k].flags = {Valid, Active, Destroy}

\* Positions in the queue of the commands of the given type for `handle`.
Queued(type, handle) ==
    {k \in 1..Len(m_commands) :
        m_commands[k].type = type /\ HandleEq(m_commands[k].handle, handle)}

\* C26 as stated: between commits every queued command's handle is the
\* handle stored in its slot and that slot is not Free; a slot is Valid
\* without Active exactly when one Create command for its handle is queued;
\* a slot has Destroy exactly when one Destroy command for its handle is
\* queued; and a handle's Create command precedes its Destroy command.
C26_CommandSlotConsistency ==
    pc = "idle"
       => /\ \A k \in 1..Len(m_commands) :
                LET index == CalculateHandleIndex(m_commands[k].handle)
                IN  /\ InRange(m_handles, index)
                    /\ HandleEq(m_commands[k].handle, Entry(m_handles, index).handle)
                    /\ Entry(m_handles, index).flags # Free
          /\ \A i \in 1..Len(m_handles) :
                /\ (Valid \in m_handles[i].flags /\ Active \notin m_handles[i].flags)
                      <=> Cardinality(Queued("Create", m_handles[i].handle)) = 1
                /\ Destroy \in m_handles[i].flags
                      <=> Cardinality(Queued("Destroy", m_handles[i].handle)) = 1
                /\ Cardinality(Queued("Create", m_handles[i].handle)) <= 1
                /\ Cardinality(Queued("Destroy", m_handles[i].handle)) <= 1
                /\ \A c \in Queued("Create", m_handles[i].handle) :
                      \A d \in Queued("Destroy", m_handles[i].handle) : c < d

\* C27 as stated: no assertion of ProcessCommands, CreateHandle,
\* DestroyHandle, FreeHandle, RetrieveHandle, DestroyEntity or IsHandleValid
\* fails when the client calls CreateEntity, DestroyEntity, ProcessCommands
\* and DestroyAllEntities and passes only handles it got from CreateEntity
\* or the null handle: the only failures are the capacity check of
\* CreateEntity and a DestroyEntity that was handed an identifier the
\* system never gave out.
C27_NoAssertionReachable ==
    (fault \notin {"none", CapacityFault}
        /\ op \in {"none", "ProcessCommands", "DestroyAllEntities"})
       => /\ pc = "idle"
          /\ lastCall.name = "DestroyEntity"
          /\ lastCall.kind = "corrupt"

\* C28 as stated: Cleanup on an initialized system goes through: nothing it
\* runs stops at a failed check, its own checks find the queue empty and
\* the count 0, and it ends with the system uninitialized, the table and
\* the queue empty, the count 0 and the free list empty; Cleanup on an
\* uninitialized system changes nothing.
C28_CleanupResets ==
    [][/\ op = "Cleanup" => fault' = "none"
       /\ (op = "Cleanup" /\ pc = "cleanup")
            => /\ m_commands = <<>>
               /\ m_entityCount = 0
               /\ pc' = "idle"
               /\ ~m_initialized'
               /\ m_handles' = <<>>
               /\ m_commands' = <<>>
               /\ m_entityCount' = 0
               /\ m_freeListDequeue' = InvalidQueueElement
               /\ m_freeListEnqueue' = InvalidQueueElement
               /\ m_freeListIsEmpty'
       /\ (Idle /\ ~m_initialized /\ lastCall'.name = "Cleanup")
            => UNCHANGED <<progVars, subscribers, ctlVars, fault>>
      ]_vars

\* The handle the client kept was issued before the last re-initialization.
Retired == lhs # NullHandle /\ lhs \notin issued

\* C29 as stated: handles do not survive re-initialization. Once the system
\* has been cleaned up or initialized again, a handle issued before is
\* reported invalid by IsHandleValid without any fault, and no CreateEntity
\* returns a handle equal to it.
C29_HandlesDoNotSurviveReinit ==
    [][/\ Retired => lhs \notin issued'
       /\ Retired'
            => /\ IsHandleValidFault(m_initialized', m_handles', lhs) = "none"
               /\ ~IsHandleValidIn(m_initialized', m_handles', lhs)
      ]_vars

\* The handle whose "create" notification is being delivered.
Announced == Head(m_commands).handle

\* C30 as stated: whenever a "create" notification is delivered for h,
\* IsHandleValid(h) is true and the slot's flags are exactly Valid|Active.
C30_Original ==
    Running("create")
       => /\ IsHandleValid(Announced)
          /\ SlotOf(Announced).flags = {Valid, Active}

\* C30, amended: whenever a "create" notification is delivered for h, the
\* slot stores h and has Valid and Active. If DestroyEntity(h) was not
\* called since CreateEntity, the flags are exactly Valid|Active and
\* IsHandleValid(h) is true; if it was, Destroy is set as well, its command
\* is queued behind, and IsHandleValid(h) is false.
C30_CreateDelivered ==
    Running("create")
       => /\ SlotOf(Announced) = Entry(m_handles, handleIndex)
          /\ HandleEq(SlotOf(Announced).handle, Announced)
          /\ {Valid, Active} \subseteq SlotOf(Announced).flags
          /\ IF Queued("Destroy", Announced) = {}
             THEN /\ SlotOf(Announced).flags = {Valid, Active}
                  /\ IsHandleValid(Announced)
             ELSE /\ SlotOf(Announced).flags = {Valid, Active, Destroy}
                  /\ ~IsHandleValid(Announced)
                  /\ IsHandleValidFault(m_initialized, m_handles, Announced) = "none"

\* The creation of an entity that was destroyed before the commit is being
\* announced after two subscribers approved it; its Destroy command is next.
C30_Witness ==
    /\ Running("create")
    /\ votes = <<TRUE, TRUE>>
    /\ Len(m_commands) = 2
    /\ m_commands[2] = [type |-> "Destroy", handle |-> Announced, by |-> "client"]
    /\ SlotOf(Announced).flags = {Valid, Active, Destroy}

\* The notifications emitted so far with the handle last issued for slot i.
Notes(i) == life[i].notes

\* C31 as stated: per handle, notifications are well ordered and not
\* duplicated. Every notification carries the handle last issued for its
\* slot; the notifications of a handle are nothing, "create", "create" then
\* "destroy", or "destroy" alone; a vote is held only for a handle that has
\* had no notification; "create" is emitted only by the step that ends a
\* vote in favour; and "destroy" without a preceding "create" is emitted
\* only by the step that ends a vote against.
C31_NotificationOrder ==
    [][/\ ~stray'
       /\ \A i \in 1..MaximumIdentifier :
             /\ Notes(i)' \in {<<>>, <<"create">>, <<"destroy">>,
                               <<"create", "destroy">>}
             /\ (Notes(i)' # Notes(i) /\ Notes(i)' = <<"create">>)
                   => /\ pc \in {"loop", "finalize"}
                      /\ voted' = "true"
                      /\ handleIndex' = i - 1
             /\ (Notes(i)' # Notes(i) /\ Notes(i)' = <<"destroy">>)
                   => /\ pc = "finalize"
                      /\ voted' = "false"
                      /\ handleIndex' = i - 1
       /\ pc' = "finalize" => life'[handleIndex' + 1].notes = <<>>
      ]_vars

\* A drain of the command queue has come to its end: ProcessCommands has
\* returned to its caller, or it has stopped at a failed assertion.
DrainEnded ==
    \/ pc \in {"sweep", "cleanup"}
    \/ pc = "idle" /\ lastCall.name \in {"ProcessCommands", "DestroyAllEntities",
                                         "Cleanup"}
    \/ pc = "loop" /\ fault # "none"

\* The sweep of DestroyAllEntities has gone through the whole table.
SweepEnded ==
    \/ pc = "sweep" /\ it >= Len(m_handles)
    \/ pc = "cleanup"
    \/ pc = "idle" /\ lastCall.name \in {"DestroyAllEntities", "Cleanup"}

\* C32 as stated: no entity is leaked. Once the sweep of DestroyAllEntities
\* (alone or inside Cleanup) is over, every handle that was announced by a
\* "create" notification has had its "destroy" notification; and once a drain
\* of the queue is over, no slot is left with a request for destruction that
\* was accepted by DestroyEntity and has not been notified.
C32_NoLeak ==
    /\ SweepEnded
          => \A i \in 1..MaximumIdentifier :
                Count("create", Notes(i)) > 0
                   => Notes(i)[Len(Notes(i))] = "destroy"
    /\ DrainEnded
          => \A i \in 1..Len(m_handles) :
                ~({Valid, Destroy} \subseteq m_handles[i].flags)

\* The handler that raised the notification being delivered goes on using
\* its reference handleEntry (and the sweep its iterator) once the
\* notification returns: CreateHandle after events.finalize, DestroyHandle
\* after events.destroy. CreateHandle uses nothing after events.create.
ReferenceHeld == pc \in {"finalize", "destroy"}

\* C33 as stated: the slot table is never appended to while ProcessCommands,
\* CreateHandle, DestroyHandle or the sweep of DestroyAllEntities holds a
\* reference to a slot that it uses after the notification, so that no such
\* reference is ever left dangling.
C33_NoAppendWhileReferenceHeld ==
    [][/\ Len(m_handles') > Len(m_handles) => ~ReferenceHeld
       /\ ~dangling'
      ]_vars

\* C34 as stated: DestroyAllEntities and Cleanup keep their postconditions
\* when subscribers call CreateEntity or DestroyEntity from the "destroy"
\* notifications of the sweep: the count is never negative, and once the
\* sweep is over the command queue is empty, no slot has Valid set and the
\* count is 0.
C34_PostconditionsUnderReentrancy ==
    /\ GetEntityCount >= 0
    /\ (SweepEnded /\ fault = "none")
          => /\ m_commands = <<>>
             /\ \A i \in 1..Len(m_handles) : Valid \notin m_handles[i].flags
             /\ GetEntityCount = 0

\* C35 as stated: ProcessCommands terminates and returns with an empty
\* command queue: a call that has entered its loop gets back to its caller
\* with nothing queued and no failed check; and every step that takes a
\* command off the queue takes exactly one, the first.
C35_DrainTerminates ==
    /\ (op = "ProcessCommands" /\ pc = "loop")
          ~> (op = "none" /\ pc = "idle" /\ m_commands = <<>> /\ fault = "none")
    /\ [][(op = "ProcessCommands" /\ Len(m_commands') < Len(m_commands))
             => m_commands' = Tail(m_commands)]_vars

\* C36: the slot table never shrinks during a session and grows only on
\* demand. The number of slots always equals the largest number of slots
\* that were in use (not Free) at the same time so far in the session; no
\* step other than the reset at the end of Cleanup makes the table shorter;
\* and a step that appends a slot finds no Free slot in the table.
C36_TableGrowsOnDemand ==
    [][/\ Len(m_handles) = peak
       /\ Len(m_handles') = peak'
       /\ pc # "cleanup" => Len(m_handles') >= Len(m_handles)
       /\ Len(m_handles') > Len(m_handles)
            => /\ Len(m_handles') = Len(m_handles) + 1
               /\ InUse(m_handles) = Len(m_handles)
               /\ InUse(m_handles') = Len(m_handles')
      ]_vars

\* A slot has been reissued while another one is Free: the table has two
\* slots, as many as were ever in use at once, and has not grown for the
\* third handle given out.
C36_Witness ==
    /\ pc = "idle"
    /\ fault = "none"
    /\ Len(m_handles) = 2
    /\ peak = 2
    /\ InUse(m_handles) = 1
    /\ \E i \in 1..2 : /\ m_handles[i].handle.version = 1
                       /\ Valid \in m_handles[i].flags

\* C37 as stated: while a notification of a commit (finalize, create or
\* destroy) is being delivered, GetEntityCount() is the number of slots that
\* have Active set; an entity whose vote is in progress or has failed is not
\* counted.
C37_CountInsideNotifications ==
    (pc \in {"finalize", "create", "destroy"} /\ fault = "none")
        => GetEntityCount = ActiveSlots(m_handles)

\* C38 as stated: on an initialized Config, GetVariable(name, d) of a name
\* that is absent stores d under the name and returns d, leaving the other
\* variables alone; of a name that is present it changes nothing and returns
\* the value last stored under the name (by SetVariable or as an earlier
\* default), whatever d is, when it is read with the type it was stored
\* with; SetVariable stores its value under the name. On an uninitialized
\* Config SetVariable stores nothing and GetVariable stores nothing and
\* returns the type's default value.
C38_ConfigLookup ==
    LET c == cfgLast
    IN  /\ (cfgCall = "GetVariable" /\ c.initialized)
              => IF c.name \notin DOMAIN c.before
                 THEN /\ c.returned = c.argument
                      /\ m_variables
                           = InsertOrAssign(c.before, c.name, to_string(c.argument))
                      /\ cfgStored[c.name] = c.argument
                 ELSE /\ m_variables = c.before
                      /\ c.held.type = c.argument.type => c.returned = c.held
        /\ (cfgCall = "GetVariable" /\ ~c.initialized)
              => /\ c.returned = TypeDefault(c.argument.type)
                 /\ m_variables = c.before
        /\ (cfgCall = "SetVariable" /\ c.initialized)
              => /\ c.name \in DOMAIN m_variables
                 /\ m_variables[c.name] = to_string(c.argument)
        /\ (cfgCall = "SetVariable" /\ ~c.initialized)
              => m_variables = c.before
        /\ ~m_configInitialized => m_variables = <<>>

\* The messages of the assertions RetrieveHandle and FreeHandle make about
\* the free list.
FreeListFaults ==
    {"Free list is not invalid while the list is empty!",
     "Out of bounds handle index!",
     "Retrieved handle is not marked as free!",
     "Last element in the free list queue is pointing at a next free handle!",
     "Fried handle entry is poiting to a next free handle!"}

\* C39: the bookkeeping of the free list is consistent in every state. The
\* empty flag is set exactly when the head is -1 and exactly when the tail
\* is -1; when the list is not empty the head and the tail are indices of
\* slots and the tail slot's nextFree is -1; every slot that is not on the
\* list has nextFree = -1; and no assertion of RetrieveHandle or FreeHandle
\* about the list has failed.
C39_FreeListBookkeeping ==
    LET chain == Chain
    IN  /\ m_freeListIsEmpty <=> m_freeListDequeue = InvalidQueueElement
        /\ m_freeListIsEmpty <=> m_freeListEnqueue = InvalidQueueElement
        /\ ~m_freeListIsEmpty
              => /\ InRange(m_handles, m_freeListDequeue)
                 /\ InRange(m_handles, m_freeListEnqueue)
                 /\ Entry(m_handles, m_freeListEnqueue).nextFree = InvalidNextFree
        /\ \A i \in 1..Len(m_handles) :
              (\A k \in 1..Len(chain) : chain[k] # i - 1)
                 => m_handles[i].nextFree = InvalidNextFree
        /\ fault \notin FreeListFaults

\* Three slots were freed and the first of them has been given out again:
\* it is in use with its link cleared, and the other two are the list, the
\* head pointing at the tail.
C39_Witness ==
    /\ fault = "none"
    /\ Len(Chain) = 2
    /\ Entry(m_handles, m_freeListDequeue).nextFree = m_freeListEnqueue
    /\ \E i \in 1..Len(m_handles) :
          /\ Valid \in m_handles[i].flags
          /\ m_handles[i].handle.version = 1
          /\ m_handles[i].nextFree = InvalidNextFree

============================================================================
